---- MODULE Spec2Model ----
(***************************************************************************)
(* Model of the sat-rs on-board software core.                             *)
(*                                                                         *)
(*  - PUS service 1 verification reporter                                  *)
(*      fsrc-core/src/pus/verification.rs                                  *)
(*  - event manager (listener table, sender table, event routing)          *)
(*      fsrc-core/src/event_man.rs                                         *)
(*                                                                         *)
(* Each component has its own specification over the shared variables:     *)
(* SpecVerif, SpecCount (the 16 bit message counter over its whole range)  *)
(* and SpecEvent.                                                          *)
(***************************************************************************)
EXTENDS Integers, Sequences, FiniteSets, TLC

(***************************************************************************)
(* Bounds of the model.                                                    *)
(***************************************************************************)
\* telemetry packets emitted in one behaviour of SpecVerif
MaxSent == 4
\* telemetry packets emitted in one behaviour of SpecCount
MaxCount == 65538
\* longest failure data slice handed to a failure report
MaxFailDataIn == 9
\* listener entries in the listener table, over all keys
MaxSubs == 4
\* events waiting in the event manager's receiver in SpecQueue
MaxQueue == 3
\* insert_tc calls in one behaviour of SpecSched
MaxInserts == 3
\* bytes in the buffer handed to the COBS parser
MaxBufLen == 8
MaxCcsdsLen == 15
MaxEventTm == 3
MaxTcs == 2
\* TMs each producer of the TM funnel sends
MaxFunnelTm == 2
\* TCs forwarded to the service handlers of the PUS handler thread
MaxSvcTcs == 2
\* longest payload, beside DUMMY_DATA, added to the shared pool
MaxPayloadLen == 3
\* frames the client of the TCP server writes
MaxClientFrames == 2
\* packets added to the TM source of the TCP server
MaxTmPackets == 2
\* pings handled by the PUS 17 handlers
MaxPings == 3
\* TCs given to the PUS 11 scheduler service handler
MaxSchedTcs == 2

(***************************************************************************)
(* Program constants.                                                      *)
(***************************************************************************)
\* RequestId::SIZE_AS_BYTES = size_of::<u32>()
SIZE_AS_BYTES == 4
\* msg_count is a u16
MsgCountModulus == 65536
\* VerificationReporterCfg::new(TEST_APID, 1, 2, 8)
step_field_width == 1
fail_code_field_width == 2
max_fail_data_len == 8
\* try_event_handling tracks up to 3 errors
MaxErrors == 3
\* the time margin of the scheduler of the tests, in seconds
time_margin == 5

VARIABLES
    msg_count,   \* VerificationReporter.msg_count
    panicked,    \* the thread that owns the reporter has panicked
    tokens,      \* the verification tokens the callers hold
    last_tm,     \* the PUS TM handed to the sender most recently
    sent_total,  \* number of TMs the sender accepted so far
    reported,    \* per request id, the subservices reported so far
    vresult,     \* what the most recent verification call returned
    listeners,   \* DefaultListenerTableProvider.listeners
    senders,     \* the keys of DefaultSenderTableProvider.senders
    disconnected,\* the registered senders whose receiving end was dropped
    event_queue, \* the events waiting in the manager's EventReceiver
    routed,      \* what try_event_handling returned, if it was the last step
    sends,       \* the sends try_event_handling attempted, in order
    tc_map,      \* PusScheduler.tc_map: release time -> store addresses
    current_time,\* PusScheduler.current_time, in seconds
    enabled,     \* PusScheduler.enabled
    tc_pool,     \* the slots of the TC pool that hold a telecommand
    sched_call,  \* the most recent call of the scheduler and what it did
    cobs_buf,    \* the bytes of the TC buffer handed to the COBS parser
    cobs_parsed, \* what parse_buffer_for_cobs_encoded_packets did, if called
    \* CCSDS parser
    ccsds_buf,   \* the bytes of the TC buffer handed to the CCSDS parser
    ccsds_parsed, \* what parse_buffer_for_ccsds_space_packets did, if called
    \* PUS event TM manager, one per backend provider
    disabled,           \* the `disabled` container of each backend provider
    reporter_msg_count, \* EventReporterBase.msg_count of each manager
    pus_event_call,     \* the most recent call of a manager and what it did
    \* PUS distributor and test service of the example
    tcs,          \* the telecommands handed to PusReceiver::handle_tc_packet
    pus_log,      \* TMs put on the TM channel and TCs forwarded, in order
    test_inbox,   \* the channel behind test_service_receiver
    handled,      \* the calls of the test handler that took a TC
    pus_panicked  \* the thread of the distributor has panicked

\* TM funnel of the example
VARIABLES
    tm_store,            \* the TM pool: store address -> service of the TM
    tm_funnel_q,         \* the channel behind tm_funnel_rx
    tm_server_q,         \* the addresses sent on tm_server_tx, in order
    tm_server_connected, \* the receiver tm_server_rx still exists
    funnel_pc,           \* where the TM funnel thread is in its loop
    funnel_addr,         \* the address the funnel thread holds
    funnel_received,     \* the addresses tm_funnel_rx.recv() returned
    producer_sent,       \* per producer, the addresses it sent, in order
    seq_count,           \* seq_count_provider of the funnel
    msg_counter_map,     \* msg_counter_map: service -> next message counter
    funnel_panicked      \* the TM funnel thread has panicked

\* PUS handler thread of the example and the TC channels of its handlers
VARIABLES
    tc_rx,            \* per service handler, the TCs waiting in psb.tc_rx
    tc_tx_alive,      \* per service handler, a sender of its channel exists
    svc_sent,         \* number of TCs sent to the handlers so far
    svc_handled,      \* per service handler, the TCs handle_one_tc was given
    svc_call,         \* the most recent handle_next_packet and its result
    pus_thread_pc,    \* where the PUS handler thread is in its loops
    poll_handler,     \* the handler the thread polls next in this round
    all_queues_empty  \* the flag of the same name of the inner loop

\* object manager
VARIABLES
    obj_map,   \* ObjectManager.obj_map: ObjectId -> the object stored
    obj_call   \* the most recent call of the object manager and its result

\* shared pool used by two threads
VARIABLES
    shared_pool,   \* the slots of the shared pool that hold a payload
    pool_lock,     \* who holds the RwLock around the pool, and how
    pool_chan,     \* the channel of store addresses between the threads
    pool_sent,     \* the address and payload the first thread sent
    jh0_pc,        \* where the adding thread is
    jh0_addr,      \* the address pool.add returned to it
    jh1_pc,        \* where the reading thread is
    jh1_addr,      \* the address it received
    jh1_read,      \* what pg.read() returned to it
    jh1_has_element, \* what has_element_at returned to it
    pool_panicked  \* an expect or assert of one of the threads failed

\* the locks around the TC pool and the TM store of the example
VARIABLES
    lock_holder,  \* per pool lock, the thread that holds it ("-" for none)
    thread_op,    \* per thread, the operation it is in ("-" for none)
    thread_step   \* per thread, how many lock steps of its operation are done

\* TCP server with COBS framing, one connection
VARIABLES
    conn_in,          \* the bytes the client wrote that the server has not read
    client_frames,    \* the number of complete frames the client has written
    client_shutdown,  \* the client has shut down its write side
    tm_queue,         \* the packets the TM source holds
    tm_added,         \* the number of packets ever added to the TM source
    conn_out,         \* the bytes the server wrote to the client
    tcp_buf,          \* tc_buffer[..next_write_idx]: the bytes kept for the next read
    conn_result,      \* ConnectionResult of the connection
    tcp_passed,       \* the telecommands passed to the TC receiver
    tcp_pc            \* "accept", "loop" or "returned"

\* the PUS 17 ping handlers of satrs-core and of the example
VARIABLES
    ping_call,        \* the most recent handle_one_tc of a ping handler
    ping_count        \* the number of pings handled

\* the PUS 11 scheduler service handler of the example
VARIABLES
    sched_svc_log,      \* the verification reports sent, as <<request, report>>
    sched_svc_call,     \* the most recent handle_one_tc and what it returned
    sched_svc_count,    \* the number of TCs given to the handler
    sched_svc_panicked  \* the thread of the handler has panicked

verif_vars == <<msg_count, panicked, tokens, last_tm, sent_total, reported, vresult>>

event_vars == <<listeners, senders, disconnected, event_queue, routed, sends>>

sched_vars == <<tc_map, current_time, enabled, tc_pool, sched_call>>

cobs_vars == <<cobs_buf, cobs_parsed>>
ccsds_vars == <<ccsds_buf, ccsds_parsed>>
pus_event_vars == <<disabled, reporter_msg_count, pus_event_call>>
pus_vars == <<tcs, pus_log, test_inbox, handled, pus_panicked>>

funnel_vars == <<tm_store, tm_funnel_q, tm_server_q, tm_server_connected, funnel_pc, funnel_addr, funnel_received, producer_sent, seq_count, msg_counter_map, funnel_panicked>>

pus_thread_vars == <<tc_rx, tc_tx_alive, svc_sent, svc_handled, svc_call, pus_thread_pc, poll_handler, all_queues_empty>>

obj_vars == <<obj_map, obj_call>>

pool_vars == <<shared_pool, pool_lock, pool_chan, pool_sent, jh0_pc, jh0_addr, jh1_pc, jh1_addr, jh1_read, jh1_has_element, pool_panicked>>

locks_vars == <<lock_holder, thread_op, thread_step>>

tcp_vars == <<conn_in, client_frames, client_shutdown, tm_queue, tm_added, conn_out, tcp_buf, conn_result, tcp_passed, tcp_pc>>

ping_vars == <<ping_call, ping_count>>

sched_svc_vars == <<sched_svc_log, sched_svc_call, sched_svc_count, sched_svc_panicked>>

vars == <<verif_vars, event_vars, sched_vars, cobs_vars, ccsds_vars, pus_event_vars, pus_vars, funnel_vars, pus_thread_vars, obj_vars, pool_vars, locks_vars, tcp_vars, ping_vars, sched_svc_vars>>

\* what a step of the verification reporter leaves alone
outside_verif == <<event_vars, sched_vars, cobs_vars, ccsds_vars, pus_event_vars, pus_vars, funnel_vars, pus_thread_vars, obj_vars, pool_vars, locks_vars, tcp_vars, ping_vars, sched_svc_vars>>

\* what a step of the event manager leaves alone
outside_event == <<verif_vars, sched_vars, cobs_vars, ccsds_vars, pus_event_vars, pus_vars, funnel_vars, pus_thread_vars, obj_vars, pool_vars, locks_vars, tcp_vars, ping_vars, sched_svc_vars>>

\* what a step of the scheduler leaves alone
outside_sched == <<verif_vars, event_vars, cobs_vars, ccsds_vars, pus_event_vars, pus_vars, funnel_vars, pus_thread_vars, obj_vars, pool_vars, locks_vars, tcp_vars, ping_vars, sched_svc_vars>>

\* what a step of the COBS parser leaves alone
outside_cobs == <<verif_vars, event_vars, sched_vars, ccsds_vars, pus_event_vars, pus_vars, funnel_vars, pus_thread_vars, obj_vars, pool_vars, locks_vars, tcp_vars, ping_vars, sched_svc_vars>>
outside_pus_event == <<verif_vars, event_vars, sched_vars, cobs_vars, ccsds_vars, pus_vars, funnel_vars, pus_thread_vars, obj_vars, pool_vars, locks_vars, tcp_vars, ping_vars, sched_svc_vars>>
outside_pus == <<verif_vars, event_vars, sched_vars, cobs_vars, ccsds_vars, pus_event_vars, funnel_vars, pus_thread_vars, obj_vars, pool_vars, locks_vars, tcp_vars, ping_vars, sched_svc_vars>>
outside_ccsds == <<verif_vars, event_vars, sched_vars, cobs_vars, pus_event_vars, pus_vars, funnel_vars, pus_thread_vars, obj_vars, pool_vars, locks_vars, tcp_vars, ping_vars, sched_svc_vars>>
outside_funnel == <<verif_vars, event_vars, sched_vars, cobs_vars, ccsds_vars, pus_event_vars, pus_vars, pus_thread_vars, obj_vars, pool_vars, locks_vars, tcp_vars, ping_vars, sched_svc_vars>>
outside_pus_thread == <<verif_vars, event_vars, sched_vars, cobs_vars, ccsds_vars, pus_event_vars, pus_vars, funnel_vars, obj_vars, pool_vars, locks_vars, tcp_vars, ping_vars, sched_svc_vars>>
outside_obj == <<verif_vars, event_vars, sched_vars, cobs_vars, ccsds_vars, pus_event_vars, pus_vars, funnel_vars, pus_thread_vars, pool_vars, locks_vars, tcp_vars, ping_vars, sched_svc_vars>>
outside_pool == <<verif_vars, event_vars, sched_vars, cobs_vars, ccsds_vars, pus_event_vars, pus_vars, funnel_vars, pus_thread_vars, obj_vars, locks_vars, tcp_vars, ping_vars, sched_svc_vars>>
outside_locks == <<verif_vars, event_vars, sched_vars, cobs_vars, ccsds_vars, pus_event_vars, pus_vars, funnel_vars, pus_thread_vars, obj_vars, pool_vars, tcp_vars, ping_vars, sched_svc_vars>>
outside_tcp == <<verif_vars, event_vars, sched_vars, cobs_vars, ccsds_vars, pus_event_vars, pus_vars, funnel_vars, pus_thread_vars, obj_vars, pool_vars, locks_vars, ping_vars, sched_svc_vars>>
outside_ping == <<verif_vars, event_vars, sched_vars, cobs_vars, ccsds_vars, pus_event_vars, pus_vars, funnel_vars, pus_thread_vars, obj_vars, pool_vars, locks_vars, tcp_vars, sched_svc_vars>>
outside_sched_svc == <<verif_vars, event_vars, sched_vars, cobs_vars, ccsds_vars, pus_event_vars, pus_vars, funnel_vars, pus_thread_vars, obj_vars, pool_vars, locks_vars, tcp_vars, ping_vars>>

(***************************************************************************)
(* Request ids and tokens.                                                 *)
(***************************************************************************)
\* RequestId::raw: version (3 bit), packet id (16 bit), sequence control
\* (16 bit) packed into a u32; the three fields do not overlap, so the
\* bitwise or is a sum.
RequestIdRaw(version_number, packet_id, psc) ==
    version_number * (2 ^ 29) + packet_id * (2 ^ 16) + psc

\* The CCSDS primary headers of the telecommands: a TC with a secondary
\* header for APID 2, unsegmented, sequence counts 0x34 and 0x35.
TcHeaders ==
    { [version_number |-> 0, packet_id |-> 6146, psc |-> 49204],
      [version_number |-> 0, packet_id |-> 6146, psc |-> 49205] }

\* RequestId::new applied to each telecommand
ReqIds == { RequestIdRaw(h.version_number, h.packet_id, h.psc) : h \in TcHeaders }

TokenStates == {"StateNone", "StateAccepted", "StateStarted"}

\* VerificationToken<STATE> { state: PhantomData<STATE>, req_id }
VerificationToken(state, req_id) == [state |-> state, req_id |-> req_id]

NoToken == [state |-> "-", req_id |-> 0]
NoTm == [service |-> 0, subservice |-> 0, msg_count |-> 0, req_id |-> 0,
         source_data_len |-> 0]
NoArgs == [step_width |-> 0, code_width |-> 0, data_len |-> 0]
NoResult == [call |-> "-", arg |-> NoToken, args |-> NoArgs, outcome |-> "-",
             token |-> NoToken, expected |-> 0, found |-> 0, retried |-> FALSE]

\* The tokens a caller holds after it passed `token` by value to a reporter
\* method: VerificationToken derives Clone and Copy, so the move leaves the
\* caller's value usable.
tokens_after_move(held, token) == held

(***************************************************************************)
(* Event manager: events, listener keys, listener table, sender table.     *)
(***************************************************************************)
\* Severity::INFO .. Severity::HIGH
SeverityInfo == 0
SeverityLow == 1
SeverityMedium == 2
SeverityHigh == 3

\* EventU16 { severity: 2 bit, group_id: 6 bit, unique_id: 8 bit }
EventU16(severity, group_id, unique_id) ==
    [severity |-> severity, group_id |-> group_id, unique_id |-> unique_id]

\* GenericEvent::raw_as_largest_type: the severity in the two high bits of
\* the 16 bit word, then the group id, then the unique id
raw_as_largest_type(event) ==
    event.severity * (2 ^ 14) + event.group_id * (2 ^ 8) + event.unique_id

\* GenericEvent::group_id_as_largest_type
group_id_as_largest_type(event) == event.group_id

\* the events of the manager's tests: an info event of group 0 and a high
\* severity event of group 1
event_0 == EventU16(SeverityInfo, 0, 5)
event_1 == EventU16(SeverityHigh, 1, 0)
Events == {event_0, event_1}

\* what is sent to the manager: an event with optional auxiliary data
Messages ==
    { [event |-> event_0, aux_data |-> "U32Pair"],
      [event |-> event_1, aux_data |-> "None"] }

SenderIds == {0, 1}

\* enum ListenerKey { Single(raw), Group(group id), All }
ListenerKeySingle(raw) == [kind |-> "Single", id |-> raw]
ListenerKeyGroup(group_id) == [kind |-> "Group", id |-> group_id]
ListenerKeyAll == [kind |-> "All", id |-> 0]

\* the keys subscribed to: event_0 alone, its group, the group of event_1,
\* and all events
ListenerKeys ==
    { ListenerKeySingle(raw_as_largest_type(event_0)),
      ListenerKeyGroup(group_id_as_largest_type(event_0)),
      ListenerKeyGroup(group_id_as_largest_type(event_1)),
      ListenerKeyAll }

NotRouted == [kind |-> "-", ok |-> TRUE, num_recipients |-> 0,
              event |-> event_0, aux_data |-> "None", errors |-> <<>>]

\* ListenerTable::contains_listener
contains_listener(key) == key \in DOMAIN listeners

\* ListenerTable::get_listener_ids (Some(iter) for a key of the table)
get_listener_ids(key) == listeners[key]

\* number of listener entries of a table
NumEntries(table) ==
    LET RECURSIVE Sum(_)
        Sum(keys) == IF keys = {} THEN 0
                     ELSE LET k == CHOOSE x \in keys : TRUE
                          IN Len(table[k]) + Sum(keys \ {k})
    IN Sum(DOMAIN table)

\* DefaultListenerTableProvider::add_listener: push to the key's list, or
\* insert a new list
add_listener(table, key, sender_id) ==
    IF key \in DOMAIN table
    THEN [table EXCEPT ![key] = Append(@, sender_id)]
    ELSE table @@ (key :> <<sender_id>>)

\* insert x into the ascending sequence s, after the elements <= x
RECURSIVE sorted_insert(_, _)
sorted_insert(s, x) ==
    IF s = <<>> THEN <<x>>
    ELSE IF Head(s) <= x THEN <<Head(s)>> \o sorted_insert(Tail(s), x)
    ELSE <<x>> \o s

sort_unstable_keeps_order(list) == list

\* Vec::sort_unstable on sender ids: the list in ascending order
RECURSIVE sort_unstable(_)
sort_unstable(list) ==
    IF list = <<>> THEN <<>>
    ELSE sorted_insert(sort_unstable(Tail(list)), Head(list))

dedup_keeps_all(list) == list

\* Vec::dedup: removes consecutive repeated elements
RECURSIVE dedup(_)
dedup(list) ==
    IF Len(list) <= 1 THEN list
    ELSE IF list[1] = list[2] THEN dedup(Tail(list))
    ELSE <<Head(list)>> \o dedup(Tail(list))

\* DefaultListenerTableProvider::remove_duplicates
table_remove_duplicates(table, key) ==
    IF key \in DOMAIN table
    THEN [table EXCEPT ![key] = dedup(sort_unstable(@))]
    ELSE table

\* every step of the manager other than try_event_handling
no_routing == routed' = NotRouted /\ sends' = <<>>

\* EventManager::update_listeners
update_listeners(key, sender_id) ==
    /\ listeners' = add_listener(listeners, key, sender_id)
    /\ no_routing
    /\ UNCHANGED <<senders, disconnected, event_queue>>
    /\ UNCHANGED outside_event

\* EventManager::subscribe_single
subscribe_single(event, sender_id) ==
    update_listeners(ListenerKeySingle(raw_as_largest_type(event)), sender_id)

\* EventManager::subscribe_group
subscribe_group(group_id, sender_id) ==
    update_listeners(ListenerKeyGroup(group_id), sender_id)

\* EventManager::subscribe_all
subscribe_all(sender_id) == update_listeners(ListenerKeyAll, sender_id)

\* EventManager::remove_duplicates
remove_duplicates(key) ==
    /\ listeners' = table_remove_duplicates(listeners, key)
    /\ no_routing
    /\ UNCHANGED <<senders, disconnected, event_queue>>
    /\ UNCHANGED outside_event

\* EventManager::add_sender: ignored if a sender with that id exists
add_sender(sender_id) ==
    /\ senders' = IF sender_id \in senders THEN senders
                  ELSE senders \cup {sender_id}
    /\ no_routing
    /\ UNCHANGED <<listeners, disconnected, event_queue>>
    /\ UNCHANGED outside_event

\* SendEventProvider::send of the sender stored for `id`: an mpsc send,
\* which fails once the receiving end is gone
send(id) == IF id \in disconnected THEN "SendError" ELSE "Ok"

add_error_unbounded(err_slice, error) == Append(err_slice, error)

\* add_error: the closure of try_event_handling that keeps the first errors
add_error(err_slice, error) ==
    IF Len(err_slice) < MaxErrors THEN Append(err_slice, error) ELSE err_slice

count_every_attempt(num_recipients, outcome) == num_recipients + 1

\* num_recipients += 1, in the branch of a send that returned Ok
count_recipient(num_recipients, outcome) ==
    IF outcome = "Ok" THEN num_recipients + 1 ELSE num_recipients

\* The loop of send_handler over the listener ids of one key.  st holds
\* num_recipients, the error slice and the sends made so far.
RECURSIVE send_to_ids(_, _, _, _, _)
send_to_ids(ids, key, event, aux_data, st) ==
    IF ids = <<>> THEN st
    ELSE LET id == Head(ids)
             outcome == IF id \in senders THEN send(id) ELSE "NoSenderForId"
             attempt == [key |-> key, id |-> id, outcome |-> outcome,
                         event |-> event, aux_data |-> aux_data]
             next == [num_recipients |->
                          count_recipient(st.num_recipients, outcome),
                      errors |->
                          IF outcome = "Ok" THEN st.errors
                          ELSE add_error(st.errors,
                                         [error |-> outcome, id |-> id]),
                      sends |-> Append(st.sends, attempt)]
         IN send_to_ids(Tail(ids), key, event, aux_data, next)

\* the closure send_handler of try_event_handling
send_handler(key, event, aux_data, st) ==
    IF contains_listener(key)
    THEN send_to_ids(get_listener_ids(key), key, event, aux_data, st)
    ELSE st

\* the keys one event is routed under, in the order of try_event_handling
single_key(event) == ListenerKeySingle(raw_as_largest_type(event))
group_key(event) == ListenerKeyGroup(group_id_as_largest_type(event))

route_event_all_first(event, aux_data) ==
    LET st0 == [num_recipients |-> 0, errors |-> <<>>, sends |-> <<>>]
        st1 == send_handler(ListenerKeyAll, event, aux_data, st0)
        st2 == send_handler(group_key(event), event, aux_data, st1)
    IN send_handler(single_key(event), event, aux_data, st2)

\* the three send_handler calls for one received event
route_event(event, aux_data) ==
    LET st0 == [num_recipients |-> 0, errors |-> <<>>, sends |-> <<>>]
        st1 == send_handler(single_key(event), event, aux_data, st0)
        st2 == send_handler(group_key(event), event, aux_data, st1)
    IN send_handler(ListenerKeyAll, event, aux_data, st2)

after_receive_drained(queue) == <<>>

\* EventReceiver::receive took the oldest event of the channel (try_recv)
after_receive(queue) == Tail(queue)

\* EventManager::try_event_handling
try_event_handling ==
    /\ IF event_queue # <<>>
       THEN LET msg == Head(event_queue)
                st == route_event(msg.event, msg.aux_data)
            IN /\ event_queue' = after_receive(event_queue)
               /\ sends' = st.sends
               /\ routed' = [kind |-> "Handled", ok |-> st.errors = <<>>,
                             num_recipients |-> st.num_recipients,
                             event |-> msg.event, aux_data |-> msg.aux_data,
                             errors |-> st.errors]
       ELSE /\ routed' = [NotRouted EXCEPT !.kind = "Empty"]
            /\ sends' = <<>>
            /\ UNCHANGED event_queue
    /\ UNCHANGED <<listeners, senders, disconnected>>
    /\ UNCHANGED outside_event

\* an event creator sends an event to the manager
send_event(msg) ==
    /\ event_queue' = Append(event_queue, msg)
    /\ no_routing
    /\ UNCHANGED <<listeners, senders, disconnected>>
    /\ UNCHANGED outside_event

\* the receiving end of a listener's channel is dropped
drop_receiver(sender_id) ==
    /\ sender_id \in senders \ disconnected
    /\ disconnected' = disconnected \cup {sender_id}
    /\ no_routing
    /\ UNCHANGED <<listeners, senders, event_queue>>
    /\ UNCHANGED outside_event

\* EventManager::new: empty tables, nothing received
InitEvent ==
    /\ listeners = <<>>
    /\ senders = {}
    /\ disconnected = {}
    /\ event_queue = <<>>
    /\ routed = NotRouted
    /\ sends = <<>>

SubscribeSingle ==
    /\ NumEntries(listeners) < MaxSubs
    /\ \E sender_id \in SenderIds : subscribe_single(event_0, sender_id)
SubscribeGroup ==
    /\ NumEntries(listeners) < MaxSubs
    /\ \E event \in Events, sender_id \in SenderIds :
         subscribe_group(event.group_id, sender_id)
SubscribeAll ==
    /\ NumEntries(listeners) < MaxSubs
    /\ \E sender_id \in SenderIds : subscribe_all(sender_id)
RemoveDuplicates == \E key \in ListenerKeys : remove_duplicates(key)
AddSender == \E sender_id \in SenderIds : add_sender(sender_id)
\* one event is in flight at a time
SendEvent ==
    /\ event_queue = <<>>
    /\ \E msg \in Messages : send_event(msg)
DropReceiver == \E sender_id \in SenderIds : drop_receiver(sender_id)
TryEventHandling == try_event_handling

NextEvent ==
    \/ SubscribeSingle
    \/ SubscribeGroup
    \/ SubscribeAll
    \/ RemoveDuplicates
    \/ AddSender
    \/ SendEvent
    \/ DropReceiver
    \/ TryEventHandling

(***************************************************************************)
(* PusScheduler: satrs-core/src/pus/scheduling.rs                          *)
(***************************************************************************)
\* release times handed to insert_tc: at, just inside and just beyond the
\* margin of time 0, and the release times of the scheduler's reset test
ReleaseTimes == {0, 5, 6, 200, 300}

\* times handed to update_time
UpdateTimes == {0, 5, 200}

\* StoreAddr { pool_idx: 0, packet_idx }
StoreAddr(pool_idx, packet_idx) == [pool_idx |-> pool_idx, packet_idx |-> packet_idx]
StoreAddrs == {StoreAddr(0, 1), StoreAddr(0, 2)}

NoAddr == StoreAddr(0, 0)

\* a call of the scheduler: its arguments, what it returned, the calls of
\* the releaser it made, and how many telecommands were scheduled before it
NoSchedCall ==
    [call |-> "-", time_stamp |-> 0, addr |-> NoAddr, returned |-> TRUE,
     released |-> <<>>, before |-> 0]

\* the keys of a map as a sequence in ascending order
RECURSIVE ascending(_)
ascending(keys) ==
    IF keys = {} THEN <<>>
    ELSE LET least == CHOOSE k \in keys : \A other \in keys : k <= other
         IN <<least>> \o ascending(keys \ {least})

\* PusScheduler::num_scheduled_telecommands
num_scheduled_telecommands ==
    LET RECURSIVE num_entries(_)
        num_entries(keys) ==
            IF keys = <<>> THEN 0
            ELSE Len(tc_map[Head(keys)]) + num_entries(Tail(keys))
    IN num_entries(ascending(DOMAIN tc_map))

\* what a call without arguments and result leaves in sched_call
sched_called(call) ==
    [NoSchedCall EXCEPT !.call = call, !.before = num_scheduled_telecommands]

\* PusScheduler::is_enabled
is_enabled == enabled

\* PusScheduler::enable
enable ==
    /\ enabled' = TRUE
    /\ sched_call' = sched_called("enable")
    /\ UNCHANGED <<tc_map, current_time, tc_pool>>
    /\ UNCHANGED outside_sched

\* PusScheduler::disable
disable ==
    /\ enabled' = FALSE
    /\ sched_call' = sched_called("disable")
    /\ UNCHANGED <<tc_map, current_time, tc_pool>>
    /\ UNCHANGED outside_sched

reset_keeps_schedule ==
    /\ enabled' = FALSE
    /\ sched_call' = sched_called("reset")
    /\ UNCHANGED <<tc_map, current_time, tc_pool>>
    /\ UNCHANGED outside_sched

\* PusScheduler::reset
reset ==
    /\ enabled' = FALSE
    /\ tc_map' = <<>>
    /\ sched_call' = sched_called("reset")
    /\ UNCHANGED <<current_time, tc_pool>>
    /\ UNCHANGED outside_sched

\* PusScheduler::update_time
update_time(time) ==
    /\ current_time' = time
    /\ sched_call' = [sched_called("update_time") EXCEPT !.time_stamp = time]
    /\ UNCHANGED <<tc_map, enabled, tc_pool>>
    /\ UNCHANGED outside_sched

insert_rejected_when_early(time_stamp) == time_stamp < current_time + time_margin

\* the guard of insert_tc: time_stamp > self.current_time + self.time_margin
insert_rejected(time_stamp) == time_stamp > current_time + time_margin

\* the match on tc_map.entry(time_stamp) of insert_tc
tc_map_entry_inserted(map, time_stamp, addr) ==
    IF time_stamp \in DOMAIN map
    THEN [map EXCEPT ![time_stamp] = Append(@, addr)]
    ELSE map @@ (time_stamp :> <<addr>>)

\* PusScheduler::insert_tc, called for a telecommand stored at addr
insert_tc(time_stamp, addr) ==
    /\ tc_pool' = tc_pool \cup {addr}
    /\ IF insert_rejected(time_stamp)
       THEN /\ UNCHANGED tc_map
            /\ sched_call' = [sched_called("insert_tc") EXCEPT
                                 !.time_stamp = time_stamp, !.addr = addr,
                                 !.returned = FALSE]
       ELSE /\ tc_map' = tc_map_entry_inserted(tc_map, time_stamp, addr)
            /\ sched_call' = [sched_called("insert_tc") EXCEPT
                                 !.time_stamp = time_stamp, !.addr = addr,
                                 !.returned = TRUE]
    /\ UNCHANGED <<current_time, enabled>>
    /\ UNCHANGED outside_sched

telecommands_to_release_before_now == {k \in DOMAIN tc_map : k < current_time}

\* PusScheduler::telecommands_to_release: tc_map.range(..=current_time)
telecommands_to_release == {k \in DOMAIN tc_map : k <= current_time}

\* the calls of the releaser for the addresses of one key
releaser_calls(addrs) ==
    [i \in DOMAIN addrs |-> [enabled |-> enabled, addr |-> addrs[i]]]

\* the loops of release_telecommands over the keys to release
RECURSIVE release_loop(_)
release_loop(keys) ==
    IF keys = <<>> THEN <<>>
    ELSE releaser_calls(tc_map[Head(keys)]) \o release_loop(Tail(keys))

\* tc_map.retain(|k, _| k > &self.current_time)
retained(map) == [k \in {key \in DOMAIN map : key > current_time} |-> map[k]]

\* the pool after the releaser was called: the scheduler has no access to the
\* pool, the releaser is taken to free the slot of every address it is handed
pool_after_release(pool, calls) ==
    pool \ {calls[i].addr : i \in DOMAIN calls}

\* PusScheduler::release_telecommands with a releaser that records its calls
release_telecommands ==
    /\ sched_call' =
           [sched_called("release_telecommands") EXCEPT
               !.released = release_loop(ascending(telecommands_to_release))]
    /\ tc_pool' = pool_after_release(tc_pool,
                       release_loop(ascending(telecommands_to_release)))
    /\ tc_map' = retained(tc_map)
    /\ UNCHANGED <<current_time, enabled>>
    /\ UNCHANGED outside_sched

\* PusScheduler::new(UnixTimestamp::new_only_seconds(0), time_margin)
InitSched ==
    /\ tc_map = <<>>
    /\ current_time = 0
    /\ enabled = TRUE
    /\ tc_pool = {}
    /\ sched_call = NoSchedCall

InsertTc ==
    /\ num_scheduled_telecommands < MaxInserts
    /\ \E time_stamp \in ReleaseTimes, addr \in StoreAddrs :
         insert_tc(time_stamp, addr)
UpdateTime == \E time \in UpdateTimes : update_time(time)
ReleaseTelecommands == release_telecommands
Enable == enable
Disable == disable
Reset == reset

NextSched ==
    \/ InsertTc
    \/ UpdateTime
    \/ ReleaseTelecommands
    \/ Enable
    \/ Disable
    \/ Reset

(***************************************************************************)
(* COBS parser: satrs-core/src/parsers/cobs.rs                             *)
(***************************************************************************)
\* the byte values of the model: the sentinel and two others
Bytes == {0, 1, 2}

\* the packets at which the TC receiver returns an error: none, the first
\* or the second it is handed
FailOn == {0, 1, 2}

\* buf[i] and the slice buf[from..to], with the indices of the code (from 0)
At(buf, i) == buf[i + 1]
Slice(buf, from, to) == SubSeq(buf, from + 1, to)

\* the copy loop of one block of cobs::decode_in_place: length bytes move
\* from source_index to dest_index
RECURSIVE copy_block(_, _, _, _)
copy_block(buff, source_index, dest_index, length) ==
    IF length = 0 THEN buff
    ELSE copy_block([buff EXCEPT ![dest_index + 1] = At(buff, source_index)],
                    source_index + 1, dest_index + 1, length - 1)

\* cobs::decode_in_place: the blocks of the slice are decoded from its start;
\* a code byte that points beyond the slice is an error
RECURSIVE decode_in_place_from(_, _, _)
decode_in_place_from(buff, source_index, dest_index) ==
    IF source_index >= Len(buff)
    THEN [ok |-> TRUE, len |-> dest_index, buff |-> buff]
    ELSE LET code == At(buff, source_index)
         IN IF source_index + code > Len(buff) /\ code # 1
            THEN [ok |-> FALSE, len |-> 0, buff |-> buff]
            ELSE LET length == IF code = 0 THEN 0 ELSE code - 1
                     copied == copy_block(buff, source_index + 1, dest_index,
                                          length)
                     source_next == source_index + 1 + length
                     dest_next == dest_index + length
                 IN IF code # 255 /\ source_next < Len(buff)
                    THEN decode_in_place_from(
                             [copied EXCEPT ![dest_next + 1] = 0],
                             source_next, dest_next + 1)
                    ELSE decode_in_place_from(copied, source_next, dest_next)

decode_in_place_keeps_bytes(buff) == [ok |-> TRUE, len |-> Len(buff), buff |-> buff]

decode_in_place(buff) == decode_in_place_from(buff, 0, 0)

\* cobs::encode: each run of non-zero bytes is written after its length plus
\* one, the zero that ends it is left out
RECURSIVE cobs_encode(_)
cobs_encode(payload) ==
    IF \A i \in DOMAIN payload : payload[i] # 0
    THEN <<Len(payload) + 1>> \o payload
    ELSE LET zero == CHOOSE i \in DOMAIN payload :
                         payload[i] = 0 /\ \A j \in 1..(i - 1) : payload[j] # 0
         IN <<zero>> \o SubSeq(payload, 1, zero - 1)
                \o cobs_encode(SubSeq(payload, zero + 1, Len(payload)))

\* buf with buf[from..from + Len(slice)] replaced by slice
with_slice(buf, from, slice) ==
    [i \in DOMAIN buf |->
        IF i > from /\ i <= from + Len(slice) THEN slice[i - from] ELSE buf[i]]

\* ReceivesTcCore::pass_tc of a receiver that fails on its fail_on-th packet
pass_tc_error_dropped(passed, fail_on) == FALSE

pass_tc_fails(passed, fail_on) == Len(passed) + 1 = fail_on

consecutive_sentinels_not_skipped(buf, i, start_found) == FALSE

\* the special case of consecutive sentinel values or all zeroes
consecutive_sentinels(buf, i, start_found) ==
    ~start_found /\ ~(i = Len(buf) - 1) /\ At(buf, i + 1) = 0

after_failed_decode_counted(st, decoded) ==
    [st EXCEPT !.buf = decoded, !.packets_found = @ + 1, !.start_found = FALSE]

\* if let Ok(packet_len) = decode_result { .. } start_found = false: a frame
\* whose decoding failed is neither counted nor passed on
after_failed_decode(st, decoded) ==
    [st EXCEPT !.buf = decoded, !.start_found = FALSE]

\* The body of the for loop of parse_buffer_for_cobs_encoded_packets for
\* index i and those after it; an error of the receiver ends the function.
RECURSIVE cobs_loop(_, _, _)
cobs_loop(i, st, fail_on) ==
    IF i >= Len(st.buf) \/ st.error THEN st
    ELSE LET buf == st.buf
         IN IF At(buf, i) # 0 THEN cobs_loop(i + 1, st, fail_on)
            ELSE IF consecutive_sentinels(buf, i, st.start_found)
            THEN cobs_loop(i + 1, st, fail_on)
            ELSE IF st.start_found
            THEN LET decode_result ==
                         decode_in_place(Slice(buf, st.start_index_packet, i))
                     decoded == with_slice(buf, st.start_index_packet,
                                           decode_result.buff)
                     packet == Slice(decoded, st.start_index_packet,
                                     st.start_index_packet + decode_result.len)
                 IN IF ~decode_result.ok
                    THEN cobs_loop(i + 1, after_failed_decode(st, decoded),
                                   fail_on)
                    ELSE IF pass_tc_fails(st.passed, fail_on)
                    THEN [st EXCEPT !.buf = decoded,
                                    !.packets_found = @ + 1,
                                    !.error = TRUE]
                    ELSE cobs_loop(i + 1,
                             [st EXCEPT !.buf = decoded,
                                        !.packets_found = @ + 1,
                                        !.passed = Append(@, packet),
                                        !.start_found = FALSE],
                             fail_on)
            ELSE cobs_loop(i + 1,
                     [st EXCEPT !.start_index_packet = i + 1,
                                !.start_found = TRUE],
                     fail_on)

\* buf.copy_within(from.., 0)
copy_within(buf, from) ==
    [i \in DOMAIN buf |-> IF i <= Len(buf) - from THEN buf[i + from] ELSE buf[i]]

\* the condition under which the split frame at the end is moved to the front
split_frame_moved(st) ==
    st.start_index_packet > 0 /\ st.start_found /\ st.packets_found > 0

\* parse_buffer_for_cobs_encoded_packets(buf, tc_receiver, next_write_idx),
\* with *next_write_idx = 0 at the call
parse_buffer_for_cobs_encoded_packets(buf, fail_on) ==
    LET st0 == [buf |-> buf, start_index_packet |-> 0, start_found |-> FALSE,
                packets_found |-> 0, passed |-> <<>>, error |-> FALSE]
        st == cobs_loop(0, st0, fail_on)
    IN IF st.error
       THEN [result |-> "Err", packets_found |-> 0, passed |-> st.passed,
             next_write_idx |-> 0, buf |-> st.buf, parsed |-> buf,
             fail_on |-> fail_on]
       ELSE IF split_frame_moved(st)
       THEN [result |-> "Ok", packets_found |-> st.packets_found,
             passed |-> st.passed,
             next_write_idx |-> Len(buf) - st.start_index_packet + 1,
             buf |-> copy_within(st.buf, st.start_index_packet - 1),
             parsed |-> buf, fail_on |-> fail_on]
       ELSE [result |-> "Ok", packets_found |-> st.packets_found,
             passed |-> st.passed, next_write_idx |-> 0, buf |-> st.buf,
             parsed |-> buf, fail_on |-> fail_on]

NotParsed ==
    [result |-> "-", packets_found |-> 0, passed |-> <<>>,
     next_write_idx |-> 0, buf |-> <<>>, parsed |-> <<>>, fail_on |-> 0]

\* a read of the connection puts one more byte into the TC buffer
cobs_read(byte) ==
    /\ cobs_parsed = NotParsed
    /\ cobs_buf' = Append(cobs_buf, byte)
    /\ UNCHANGED cobs_parsed
    /\ UNCHANGED outside_cobs

\* CobsTcParser::handle_tc_parsing: the filled part of the TC buffer is parsed
handle_tc_parsing(fail_on) ==
    /\ cobs_parsed = NotParsed
    /\ cobs_buf # <<>>
    /\ cobs_parsed' = parse_buffer_for_cobs_encoded_packets(cobs_buf, fail_on)
    /\ cobs_buf' = cobs_parsed'.buf
    /\ UNCHANGED outside_cobs

\* after parsing, the next read writes at next_write_idx: the bytes before it
\* are kept
cobs_next_read ==
    /\ cobs_parsed.result = "Ok"
    /\ cobs_buf' = SubSeq(cobs_buf, 1, cobs_parsed.next_write_idx)
    /\ cobs_parsed' = NotParsed
    /\ UNCHANGED outside_cobs

InitCobs ==
    /\ cobs_buf = <<>>
    /\ cobs_parsed = NotParsed

CobsRead ==
    /\ Len(cobs_buf) < MaxBufLen
    /\ \E byte \in Bytes : cobs_read(byte)
HandleTcParsing == \E fail_on \in FailOn : handle_tc_parsing(fail_on)
CobsNextRead == cobs_next_read

NextCobs ==
    \/ CobsRead
    \/ HandleTcParsing
    \/ CobsNextRead

(***************************************************************************)
(* PUS event TM manager: fsrc-core/src/pus/event_man.rs, pus/event.rs      *)
(***************************************************************************)
\* the two backend providers; a PusEventTmManager is built on each
Providers == {"Default", "Heapless"}

\* the capacity N of HeaplessPusMgmtBckendProvider<N, Provider>
HeaplessN == 2

\* EventReporter::new(apid, max_event_id_and_aux_data): the size of the
\* source data buffer
max_event_id_and_aux_data == 128

\* EcssEnumeration::byte_width of an EventU16
byte_width == 2

\* one event of each severity
Severities == {SeverityInfo, SeverityLow, SeverityMedium, SeverityHigh}
PusEvents == {EventU16(sev, 0, sev) : sev \in Severities}

\* the lengths of the auxiliary data handed in: none, and more than fits
AuxLens == {0, 127}

\* PusEventMgmtBackendProvider::event_enabled
event_enabled(provider, container, event) ==
    IF provider = "Default"
    THEN ~(event \in container)
    ELSE raw_as_largest_type(event) \in container

\* PusEventMgmtBackendProvider::enable_event_reporting: the container after
\* the call and the Result<bool, ()> it returns
enable_event_reporting(provider, container, event) ==
    IF provider = "Default"
    THEN [container |-> container \ {event}, ok |-> TRUE,
          value |-> event \in container]
    ELSE IF raw_as_largest_type(event) \in container
    THEN [container |-> container, ok |-> TRUE, value |-> FALSE]
    ELSE IF Cardinality(container) >= HeaplessN
    THEN [container |-> container, ok |-> FALSE, value |-> FALSE]
    ELSE [container |-> container \cup {raw_as_largest_type(event)},
          ok |-> TRUE, value |-> TRUE]

\* PusEventMgmtBackendProvider::disable_event_reporting
disable_event_reporting(provider, container, event) ==
    IF provider = "Default"
    THEN [container |-> container \cup {event}, ok |-> TRUE,
          value |-> ~(event \in container)]
    ELSE [container |-> container \ {raw_as_largest_type(event)}, ok |-> TRUE,
          value |-> raw_as_largest_type(event) \in container]

NoPusEventCall ==
    [call |-> "-", provider |-> "-", event |-> EventU16(0, 0, 0),
     severity |-> 0, kind |-> "-", value |-> FALSE, error |-> "-",
     passed |-> 0, actual |-> 0, sent |-> <<>>, send_ok |-> FALSE,
     enabled_before |-> FALSE, count_before |-> 0]

\* what a call of a manager returned: Ok(value) or Err(error)
pus_event_ok(call, value) == [call EXCEPT !.kind = "Ok", !.value = value]
pus_event_err(call, error) == [call EXCEPT !.kind = "Err", !.error = error]

pus_event_called(call, provider, event) ==
    [NoPusEventCall EXCEPT
        !.call = call, !.provider = provider, !.event = event,
        !.enabled_before = event_enabled(provider, disabled[provider], event),
        !.count_before = reporter_msg_count[provider]]

\* PusEventTmManager::enable_tm_for_event
enable_tm_for_event(provider, event) ==
    LET res == enable_event_reporting(provider, disabled[provider], event)
        call == pus_event_called("enable_tm_for_event", provider, event)
    IN /\ disabled' = [disabled EXCEPT ![provider] = res.container]
       /\ pus_event_call' = IF res.ok THEN pus_event_ok(call, res.value)
                            ELSE pus_event_err(call, "()")
       /\ UNCHANGED reporter_msg_count
       /\ UNCHANGED outside_pus_event

\* PusEventTmManager::disable_tm_for_event
disable_tm_for_event(provider, event) ==
    LET res == disable_event_reporting(provider, disabled[provider], event)
        call == pus_event_called("disable_tm_for_event", provider, event)
    IN /\ disabled' = [disabled EXCEPT ![provider] = res.container]
       /\ pus_event_call' = IF res.ok THEN pus_event_ok(call, res.value)
                            ELSE pus_event_err(call, "()")
       /\ UNCHANGED reporter_msg_count
       /\ UNCHANGED outside_pus_event

severity_subservice_unshifted(severity) == severity

\* the arm of the match on the severity: event_info .. event_high_severity
\* with Subservices::TmInfoReport = 1 .. TmHighSeverityReport = 4
severity_subservice(severity) ==
    CASE severity = SeverityInfo -> 1
      [] severity = SeverityLow -> 2
      [] severity = SeverityMedium -> 3
      [] severity = SeverityHigh -> 4

severity_never_differs(event, severity) == FALSE

\* event.severity() != severity
severity_differs(event, severity) == event.severity # severity

\* source_buffer_large_enough(buf.len(), src_data_len)
event_source_buffer_large_enough(cap, len) == ~(len > cap)

\* EventReporterBase::generate_generic_event_tm: the PUS[5, subservice] TM
generate_generic_event_tm(provider, subservice, event, aux_len) ==
    [service |-> 5, subservice |-> subservice,
     msg_count |-> reporter_msg_count[provider],
     event_id |-> raw_as_largest_type(event), aux_len |-> aux_len]

event_msg_count_incremented(mc) == (mc + 1) % MsgCountModulus

\* EventReporterBase::generate_and_send_generic_tm
generate_and_send_generic_tm(call, provider, subservice, event, aux_len, send_ok) ==
    LET tm == generate_generic_event_tm(provider, subservice, event, aux_len)
    IN IF ~event_source_buffer_large_enough(max_event_id_and_aux_data,
                                            byte_width + aux_len)
       THEN /\ pus_event_call' = pus_event_err(call, "ByteConversionError")
            /\ UNCHANGED reporter_msg_count
       ELSE IF ~send_ok
       THEN /\ pus_event_call' =
                   pus_event_err([call EXCEPT !.sent = <<tm>>], "SendError")
            /\ UNCHANGED reporter_msg_count
       ELSE /\ pus_event_call' =
                   pus_event_ok([call EXCEPT !.sent = <<tm>>, !.send_ok = TRUE],
                                TRUE)
            /\ reporter_msg_count' =
                   [reporter_msg_count EXCEPT
                       ![provider] = event_msg_count_incremented(@)]

\* PusEventTmManager::generate_pus_event_tm_generic
generate_pus_event_tm_generic(provider, severity, event, aux_len, send_ok) ==
    LET call == [pus_event_called("generate_pus_event_tm_generic", provider,
                                  event) EXCEPT !.severity = severity]
    IN /\ IF ~event_enabled(provider, disabled[provider], event)
          THEN /\ pus_event_call' = pus_event_ok(call, FALSE)
               /\ UNCHANGED reporter_msg_count
          ELSE IF severity_differs(event, severity)
          THEN /\ pus_event_call' =
                      [pus_event_err(call, "SeverityMissmatch") EXCEPT
                          !.passed = severity, !.actual = event.severity]
               /\ UNCHANGED reporter_msg_count
          ELSE generate_and_send_generic_tm(call, provider,
                   severity_subservice(severity), event, aux_len, send_ok)
       /\ UNCHANGED disabled
       /\ UNCHANGED outside_pus_event

InitPusEvent ==
    /\ disabled = [provider \in Providers |-> {}]
    /\ reporter_msg_count = [provider \in Providers |-> 0]
    /\ pus_event_call = NoPusEventCall

EnableTmForEvent ==
    \E provider \in Providers, event \in PusEvents :
        enable_tm_for_event(provider, event)
DisableTmForEvent ==
    \E provider \in Providers, event \in PusEvents :
        disable_tm_for_event(provider, event)

\* the backend providers under the calls that reach them
NextBackends ==
    \/ EnableTmForEvent
    \/ DisableTmForEvent

\* the manager of the example: PusEventTmManager::new(event_reporter,
\* Box::new(DefaultPusMgmtBackendProvider::default()))
pus_event_tm_manager == "Default"

ManagerEnableTmForEvent ==
    \E event \in PusEvents : enable_tm_for_event(pus_event_tm_manager, event)
ManagerDisableTmForEvent ==
    \E event \in PusEvents : disable_tm_for_event(pus_event_tm_manager, event)
GeneratePusEventTmGeneric ==
    \E severity \in Severities, event \in PusEvents, aux_len \in AuxLens,
       send_ok \in BOOLEAN :
        /\ reporter_msg_count[pus_event_tm_manager] < MaxEventTm
        /\ generate_pus_event_tm_generic(pus_event_tm_manager, severity,
                                         event, aux_len, send_ok)

NextPusEvent ==
    \/ ManagerEnableTmForEvent
    \/ ManagerDisableTmForEvent
    \/ GeneratePusEventTmGeneric

(***************************************************************************)
(* PUS distributor and test service: satrs-example/src/pus/mod.rs,         *)
(* satrs-core/src/pus/test.rs                                              *)
(***************************************************************************)
\* the telecommands of the model: service and subservice
PusTcs ==
    {[service |-> 17, subservice |-> 1], [service |-> 17, subservice |-> 128],
     [service |-> 3, subservice |-> 1], [service |-> 5, subservice |-> 1],
     [service |-> 11, subservice |-> 1], [service |-> 8, subservice |-> 1],
     [service |-> 200, subservice |-> 1], [service |-> 99, subservice |-> 1]}

\* PusServiceId::try_from(service) is Ok for the standard services
StandardServices == {1, 3, 5, 8, 11, 17}

\* CustomPusServiceId::try_from(number) is Ok for Mode and Health
CustomServices == {200, 201}

\* the arm of the match on the standard service: the sender of
\* PusTcMpscRouter the TC goes to, "-" for the arm `_`
routed_to(service) ==
    CASE service = 17 -> "test_service_receiver"
      [] service = 3 -> "hk_service_receiver"
      [] service = 5 -> "event_service_receiver"
      [] service = 11 -> "sched_service_receiver"
      [] OTHER -> "-"

start_failure_code_invalid_subservice(service) == "INVALID_PUS_SUBSERVICE"

\* the failure code of the start_failure report for a service without route
start_failure_code(service) ==
    IF service \in StandardServices
    THEN "PUS_SERVICE_NOT_IMPLEMENTED"
    ELSE "INVALID_PUS_SUBSERVICE"

\* a TM put on the TM channel while the TC with request id cause is handled
pus_tm(service, subservice, source_data, cause) ==
    [kind |-> "tm", inbox |-> "-", service |-> service,
     subservice |-> subservice, source_data |-> source_data, cause |-> cause]

\* (store_addr, accepted_token) sent to a service receiver
pus_forward(inbox, req_id) ==
    [kind |-> "fwd", inbox |-> inbox, service |-> 0, subservice |-> 0,
     source_data |-> <<>>, cause |-> req_id]

\* PusReceiver::handle_tc_packet for the TC with request id req_id.
\* accept_ok: the acceptance report could be sent; send_ok: the channel send,
\* or the sending of the start failure report, succeeded.
handle_tc_packet(req_id, tc, accept_ok, send_ok) ==
    LET accepted == pus_tm(1, 1, <<req_id>>, req_id)
        given(outcome) ==
            Append(tcs, [service |-> tc.service, subservice |-> tc.subservice,
                         outcome |-> outcome])
        failure == pus_tm(1, 4, <<req_id, start_failure_code(tc.service),
                                  tc.service>>, req_id)
    IN /\ IF ~accept_ok
          THEN /\ pus_panicked' = TRUE
               /\ tcs' = given("panicked")
               /\ UNCHANGED <<pus_log, test_inbox>>
          ELSE IF routed_to(tc.service) = "test_service_receiver"
          THEN IF send_ok
               THEN /\ pus_log' = pus_log \o
                           <<accepted, pus_forward(routed_to(tc.service), req_id)>>
                    /\ test_inbox' = Append(test_inbox,
                           [req_id |-> req_id, service |-> tc.service,
                            subservice |-> tc.subservice])
                    /\ tcs' = given("ok")
                    /\ UNCHANGED pus_panicked
               ELSE /\ pus_log' = Append(pus_log, accepted)
                    /\ tcs' = given("send_failed")
                    /\ UNCHANGED <<test_inbox, pus_panicked>>
          ELSE IF routed_to(tc.service) # "-"
          THEN IF send_ok
               THEN /\ pus_log' = pus_log \o
                           <<accepted, pus_forward(routed_to(tc.service), req_id)>>
                    /\ tcs' = given("ok")
                    /\ UNCHANGED <<test_inbox, pus_panicked>>
               ELSE /\ pus_log' = Append(pus_log, accepted)
                    /\ tcs' = given("panicked")
                    /\ pus_panicked' = TRUE
                    /\ UNCHANGED test_inbox
          ELSE IF tc.service \notin StandardServices /\ tc.service \in CustomServices
          THEN /\ pus_log' = Append(pus_log, accepted)
               /\ tcs' = given("ok")
               /\ UNCHANGED <<test_inbox, pus_panicked>>
          ELSE IF send_ok
          THEN /\ pus_log' = pus_log \o <<accepted, failure>>
               /\ tcs' = given("ok")
               /\ UNCHANGED <<test_inbox, pus_panicked>>
          ELSE /\ pus_log' = Append(pus_log, accepted)
               /\ tcs' = given("panicked")
               /\ pus_panicked' = TRUE
               /\ UNCHANGED test_inbox
       /\ UNCHANGED handled
       /\ UNCHANGED outside_pus

completion_attempted_always(start_ok) == TRUE

\* if let Some(start_token) = start_token
completion_attempted(start_ok) == start_ok

\* the TMs of the ping branch of handle_one_tc: start success, the ping reply
\* PUS[17,2] without source data, completion success
ping_tms(req_id, start_ok, reply_ok, completion_ok) ==
    (IF start_ok THEN <<pus_tm(1, 3, <<req_id>>, req_id)>> ELSE <<>>)
    \o (IF reply_ok THEN <<pus_tm(17, 2, <<>>, req_id)>> ELSE <<>>)
    \o (IF completion_attempted(start_ok) /\ completion_ok
        THEN <<pus_tm(1, 7, <<req_id>>, req_id)>> ELSE <<>>)

\* PusService17TestHandler::handle_one_tc with a TC in the inbox
handle_one_tc(start_ok, reply_ok, completion_ok) ==
    /\ test_inbox # <<>>
    /\ LET tc == Head(test_inbox)
           took(result) ==
               Append(handled, [req_id |-> tc.req_id, start_ok |-> start_ok,
                                reply_ok |-> reply_ok,
                                completion_ok |-> completion_ok,
                                result |-> result])
       IN IF tc.service # 17
          THEN /\ handled' = took("WrongService")
               /\ UNCHANGED pus_log
          ELSE IF tc.subservice = 1
          THEN /\ pus_log' = pus_log \o
                      ping_tms(tc.req_id, start_ok, reply_ok, completion_ok)
               /\ handled' = took(IF start_ok /\ reply_ok /\ completion_ok
                                  THEN "RequestHandled"
                                  ELSE "RequestHandledPartialSuccess")
          ELSE /\ handled' = took("CustomSubservice")
               /\ UNCHANGED pus_log
    /\ test_inbox' = Tail(test_inbox)
    /\ UNCHANGED <<tcs, pus_panicked>>
    /\ UNCHANGED outside_pus

InitPus ==
    /\ tcs = <<>>
    /\ pus_log = <<>>
    /\ test_inbox = <<>>
    /\ handled = <<>>
    /\ pus_panicked = FALSE

\* the request id of the next TC: the sequence count goes up by one per TC
HandleTcPacket ==
    /\ ~pus_panicked
    /\ Len(tcs) < MaxTcs
    /\ \E tc \in PusTcs, accept_ok \in BOOLEAN, send_ok \in BOOLEAN :
           handle_tc_packet(Len(tcs) + 1, tc, accept_ok, send_ok)
HandleOneTc ==
    \E start_ok \in BOOLEAN, reply_ok \in BOOLEAN, completion_ok \in BOOLEAN :
        handle_one_tc(start_ok, reply_ok, completion_ok)

NextPus ==
    \/ HandleTcPacket
    \/ HandleOneTc

(***************************************************************************)
(* CCSDS parser: satrs-core/src/parsers/ccsds.rs                           *)
(***************************************************************************)
\* the byte values of the model
CcsdsBytes == {0, 1}

\* the packet_id_lookup handed to the parser: the one packet id 0x0100
packet_id_lookup == {256}

\* PacketIdLookup::validate
validate(lookup, packet_id) == packet_id \in lookup

\* u16::from_be_bytes
from_be_bytes(high, low) == high * 256 + low

\* let packets_found = 0: the binding is not mutable
packets_found == 0

\* (current_idx + packet_size as usize) < buf_len
packet_fits(current_idx, packet_size, buf_len) ==
    current_idx + packet_size < buf_len

\* The loop of parse_buffer_for_ccsds_space_packets from current_idx on; an
\* error of the receiver ends the function. packet_size is a u16.
RECURSIVE ccsds_loop(_, _, _)
ccsds_loop(current_idx, st, fail_on) ==
    IF current_idx + 7 >= Len(st.buf) THEN st
    ELSE LET buf == st.buf
             packet_id == from_be_bytes(At(buf, current_idx),
                                        At(buf, current_idx + 1))
             length_field == from_be_bytes(At(buf, current_idx + 4),
                                           At(buf, current_idx + 5))
             packet_size == (length_field + 7) % 65536
         IN IF ~validate(packet_id_lookup, packet_id)
            THEN ccsds_loop(current_idx + 1, st, fail_on)
            ELSE IF packet_fits(current_idx, packet_size, Len(st.parsed))
            THEN IF pass_tc_fails(st.passed, fail_on)
                 THEN [st EXCEPT !.error = TRUE]
                 ELSE ccsds_loop(current_idx + packet_size,
                          [st EXCEPT !.passed = Append(@,
                               Slice(buf, current_idx, current_idx + packet_size))],
                          fail_on)
            ELSE IF current_idx > 0
            THEN ccsds_loop(current_idx + packet_size,
                     [st EXCEPT !.buf = copy_within(buf, current_idx),
                                !.next_write_idx = current_idx],
                     fail_on)
            ELSE ccsds_loop(current_idx + packet_size, st, fail_on)

\* parse_buffer_for_ccsds_space_packets(buf, packet_id_lookup, tc_receiver,
\* next_write_idx), with *next_write_idx = 0 at the call
parse_buffer_for_ccsds_space_packets(buf, fail_on) ==
    LET st0 == [buf |-> buf, parsed |-> buf, passed |-> <<>>,
                next_write_idx |-> 0, error |-> FALSE]
        st == ccsds_loop(0, st0, fail_on)
    IN [result |-> IF st.error THEN "Err" ELSE "Ok",
        packets_found |-> packets_found, passed |-> st.passed,
        next_write_idx |-> st.next_write_idx, buf |-> st.buf,
        parsed |-> buf, fail_on |-> fail_on]

\* a read of the connection puts one more byte into the TC buffer
ccsds_read(byte) ==
    /\ ccsds_parsed = NotParsed
    /\ ccsds_buf' = Append(ccsds_buf, byte)
    /\ UNCHANGED ccsds_parsed
    /\ UNCHANGED outside_ccsds

\* the filled part of the TC buffer is parsed
ccsds_handle_tc_parsing(fail_on) ==
    /\ ccsds_parsed = NotParsed
    /\ ccsds_buf # <<>>
    /\ ccsds_parsed' = parse_buffer_for_ccsds_space_packets(ccsds_buf, fail_on)
    /\ ccsds_buf' = ccsds_parsed'.buf
    /\ UNCHANGED outside_ccsds

\* after parsing, the next read writes at next_write_idx: the bytes before it
\* are kept
ccsds_next_read ==
    /\ ccsds_parsed.result = "Ok"
    /\ ccsds_buf' = SubSeq(ccsds_buf, 1, ccsds_parsed.next_write_idx)
    /\ ccsds_parsed' = NotParsed
    /\ UNCHANGED outside_ccsds

InitCcsds ==
    /\ ccsds_buf = <<>>
    /\ ccsds_parsed = NotParsed

CcsdsRead ==
    /\ Len(ccsds_buf) < MaxCcsdsLen
    /\ \E byte \in CcsdsBytes : ccsds_read(byte)
CcsdsHandleTcParsing == \E fail_on \in FailOn : ccsds_handle_tc_parsing(fail_on)
CcsdsNextRead == ccsds_next_read

NextCcsds ==
    \/ CcsdsRead
    \/ CcsdsHandleTcParsing
    \/ CcsdsNextRead


(***************************************************************************)
(* VerificationReporter: building the telemetry packet.                    *)
(***************************************************************************)
\* source_data_buf: vec![0; 4 + step width + failure code width + failure
\* data length]; its capacity is its length.
source_data_buf_capacity ==
    SIZE_AS_BYTES + step_field_width + fail_code_field_width + max_fail_data_len

\* step widths (EcssEnumU8, EcssEnumU16); 0 stands for "no step" (None)
StepWidths == {1, 2}
\* failure parameters: the width of the failure code (EcssEnumU8,
\* EcssEnumU16, EcssEnumU32) and the length of the failure data (0 for None)
FailParams ==
    { [code_width |-> 2, data_len |-> 0],
      [code_width |-> 1, data_len |-> 4],
      [code_width |-> 2, data_len |-> MaxFailDataIn],
      [code_width |-> 4, data_len |-> MaxFailDataIn] }

\* mutant: the size check lets one byte too many pass
source_buffer_large_enough_off_by_one(len) ==
    ~(len > source_data_buf_capacity + 1)

\* source_buffer_large_enough: Ok(()) unless len > capacity
source_buffer_large_enough(len) == ~(len > source_data_buf_capacity)

\* create_pus_verif_tm_base: the secondary header carries the reporter's
\* current msg_count, the source data is the first source_data_len bytes
\* of the source data buffer (they start with the request id).
create_pus_verif_tm_base(service, subservice, req_id, source_data_len) ==
    [service |-> service, subservice |-> subservice, msg_count |-> msg_count,
     req_id |-> req_id, source_data_len |-> source_data_len]

\* The value both create functions return: Ok(tm), or the byte conversion
\* error ToSliceTooSmall(SizeMissmatch { found: capacity, expected: len }).
created_tm(service, subservice, req_id, source_data_len) ==
    IF source_buffer_large_enough(source_data_len)
    THEN [ok |-> TRUE,
          tm |-> create_pus_verif_tm_base(service, subservice, req_id,
                                          source_data_len),
          expected |-> 0, found |-> 0]
    ELSE [ok |-> FALSE, tm |-> NoTm,
          expected |-> source_data_len, found |-> source_data_buf_capacity]

\* length of the source data of a success report
success_source_data_len(step_width) == SIZE_AS_BYTES + step_width

create_pus_verif_success_tm(service, subservice, req_id, step_width) ==
    created_tm(service, subservice, req_id, success_source_data_len(step_width))

\* length of the source data of a failure report
fail_source_data_len(step_width, fail_code_width, fail_data_len) ==
    SIZE_AS_BYTES + fail_code_width + step_width + fail_data_len

create_pus_verif_fail_tm(service, subservice, req_id, step_width, code_width, data_len) ==
    created_tm(service, subservice, req_id,
               fail_source_data_len(step_width, code_width, data_len))

\* mutant: the counter is not incremented after a successful send
msg_count_not_incremented(mc) == mc

\* self.msg_count += 1 on a u16 without overflow checks
msg_count_incremented(mc) == (mc + 1) % MsgCountModulus

\* mutant: the counter is incremented before the send is known to have
\* succeeded
msg_count_incremented_before_send(mc) == (mc + 1) % MsgCountModulus

\* msg_count after a call whose send failed: the method returned before
\* the increment
msg_count_after_failed_send(mc) == mc

\* The token an error carries back: VerificationErrorWithToken(e, token)
token_of_error(token) == token

(***************************************************************************)
(* One call of a reporter method.  `created` is the result of building the *)
(* TM, send_ok the outcome of sender.send_verification_tm, next_state the  *)
(* state of the token the method returns ("-" when it returns ()) and      *)
(* by_value whether the token is passed by value (and returned with an     *)
(* error).                                                                 *)
(***************************************************************************)
call_result(call, token, args, outcome, returned, expected, found) ==
    [call |-> call, arg |-> token, args |-> args, outcome |-> outcome,
     token |-> returned, expected |-> expected, found |-> found,
     retried |-> /\ vresult.outcome = "SendError"
                 /\ vresult.call = call
                 /\ vresult.token = token]

\* `self.msg_count += 1` overflows when msg_count is u16::MAX: a build with
\* overflow checks panics there, a build without them wraps.
OverflowChecks == IF msg_count + 1 >= MsgCountModulus THEN BOOLEAN ELSE {FALSE}

report(call, token, by_value, args, created, send_ok, next_state) ==
    /\ ~panicked
    /\ UNCHANGED outside_verif
    /\ IF ~created.ok
       THEN /\ vresult' = call_result(call, token, args, "ToSliceTooSmall",
                                      IF by_value THEN token_of_error(token)
                                      ELSE NoToken,
                                      created.expected, created.found)
            /\ UNCHANGED <<msg_count, panicked, tokens, last_tm, sent_total,
                           reported>>
       ELSE IF ~send_ok
       THEN /\ vresult' = call_result(call, token, args, "SendError",
                                      IF by_value THEN token_of_error(token)
                                      ELSE NoToken, 0, 0)
            /\ msg_count' = msg_count_after_failed_send(msg_count)
            /\ UNCHANGED <<panicked, tokens, last_tm, sent_total, reported>>
       ELSE /\ last_tm' = created.tm
            /\ sent_total' = sent_total + 1
            /\ reported' = [reported EXCEPT ![token.req_id] =
                                @ \cup {created.tm.subservice}]
            /\ \E overflow_checks \in OverflowChecks :
                 IF overflow_checks
                 THEN \* attempt to add with overflow: the thread unwinds
                      /\ panicked' = TRUE
                      /\ UNCHANGED <<msg_count, tokens, vresult>>
                 ELSE /\ msg_count' = msg_count_incremented(msg_count)
                      /\ tokens' =
                           LET held == IF by_value
                                       THEN tokens_after_move(tokens, token)
                                       ELSE tokens
                           IN IF next_state = "-" THEN held
                              ELSE held \cup
                                   {VerificationToken(next_state, token.req_id)}
                      /\ vresult' = call_result(call, token, args, "Ok",
                                      IF next_state = "-" THEN NoToken
                                      ELSE VerificationToken(next_state,
                                                             token.req_id),
                                      0, 0)
                      /\ UNCHANGED panicked

\* the tokens of one type-state the callers hold
Held(state) == { t \in tokens : t.state = state }

\* add_tc / add_tc_with_req_id: a token in StateNone for the request id.
\* Each telecommand is registered once.
add_tc_with_req_id(req_id) ==
    /\ ~panicked
    /\ VerificationToken("StateNone", req_id) \notin tokens
    /\ tokens' = tokens \cup {VerificationToken("StateNone", req_id)}
    /\ UNCHANGED <<msg_count, panicked, last_tm, sent_total, reported, vresult>>
    /\ UNCHANGED outside_verif

\* the sizes of what a call was given: the step (0 for none), the failure
\* code and the failure data (0 for none)
Args(step_width, code_width, data_len) ==
    [step_width |-> step_width, code_width |-> code_width,
     data_len |-> data_len]

\* TM[1,1]
acceptance_success(token, send_ok) ==
    report("acceptance_success", token, TRUE, NoArgs,
           create_pus_verif_success_tm(1, 1, token.req_id, 0),
           send_ok, "StateAccepted")

\* TM[1,2]
acceptance_failure(token, params, send_ok) ==
    report("acceptance_failure", token, TRUE,
           Args(0, params.code_width, params.data_len),
           create_pus_verif_fail_tm(1, 2, token.req_id, 0,
                                    params.code_width, params.data_len),
           send_ok, "-")

\* TM[1,3]
start_success(token, send_ok) ==
    report("start_success", token, TRUE, NoArgs,
           create_pus_verif_success_tm(1, 3, token.req_id, 0),
           send_ok, "StateStarted")

\* TM[1,4]
start_failure(token, params, send_ok) ==
    report("start_failure", token, TRUE,
           Args(0, params.code_width, params.data_len),
           create_pus_verif_fail_tm(1, 4, token.req_id, 0,
                                    params.code_width, params.data_len),
           send_ok, "-")

\* TM[1,5]; the token is passed by reference
step_success(token, step_width, send_ok) ==
    report("step_success", token, FALSE, Args(step_width, 0, 0),
           create_pus_verif_success_tm(1, 5, token.req_id, step_width),
           send_ok, "-")

\* TM[1,6]
step_failure(token, step_width, params, send_ok) ==
    report("step_failure", token, TRUE,
           Args(step_width, params.code_width, params.data_len),
           create_pus_verif_fail_tm(1, 6, token.req_id, step_width,
                                    params.code_width, params.data_len),
           send_ok, "-")

\* TM[1,7]
completion_success(token, send_ok) ==
    report("completion_success", token, TRUE, NoArgs,
           create_pus_verif_success_tm(1, 7, token.req_id, 0),
           send_ok, "-")

\* TM[1,8]
completion_failure(token, params, send_ok) ==
    report("completion_failure", token, TRUE,
           Args(0, params.code_width, params.data_len),
           create_pus_verif_fail_tm(1, 8, token.req_id, 0,
                                    params.code_width, params.data_len),
           send_ok, "-")

\* VerificationReporter::new: msg_count 0; no telecommand registered yet.
InitVerif ==
    /\ msg_count = 0
    /\ panicked = FALSE
    /\ tokens = {}
    /\ last_tm = NoTm
    /\ sent_total = 0
    /\ reported = [r \in ReqIds |-> {}]
    /\ vresult = NoResult

\* The callers: a method is callable with a token of the type-state its
\* signature names.
AddTc == \E r \in ReqIds : add_tc_with_req_id(r)
AcceptanceSuccess ==
    /\ sent_total < MaxSent
    /\ \E token \in Held("StateNone"), send_ok \in BOOLEAN :
         acceptance_success(token, send_ok)
AcceptanceFailure ==
    /\ sent_total < MaxSent
    /\ \E token \in Held("StateNone"), params \in FailParams,
          send_ok \in BOOLEAN :
         acceptance_failure(token, params, send_ok)
StartSuccess ==
    /\ sent_total < MaxSent
    /\ \E token \in Held("StateAccepted"), send_ok \in BOOLEAN :
         start_success(token, send_ok)
StartFailure ==
    /\ sent_total < MaxSent
    /\ \E token \in Held("StateAccepted"), params \in FailParams,
          send_ok \in BOOLEAN :
         start_failure(token, params, send_ok)
StepSuccess ==
    /\ sent_total < MaxSent
    /\ \E token \in Held("StateStarted"), sw \in StepWidths,
          send_ok \in BOOLEAN :
         step_success(token, sw, send_ok)
StepFailure ==
    /\ sent_total < MaxSent
    /\ \E token \in Held("StateStarted"), sw \in StepWidths,
          params \in FailParams, send_ok \in BOOLEAN :
         step_failure(token, sw, params, send_ok)
CompletionSuccess ==
    /\ sent_total < MaxSent
    /\ \E token \in Held("StateStarted"), send_ok \in BOOLEAN :
         completion_success(token, send_ok)
CompletionFailure ==
    /\ sent_total < MaxSent
    /\ \E token \in Held("StateStarted"), params \in FailParams,
          send_ok \in BOOLEAN :
         completion_failure(token, params, send_ok)

NextVerif ==
    \/ AddTc
    \/ AcceptanceSuccess
    \/ AcceptanceFailure
    \/ StartSuccess
    \/ StartFailure
    \/ StepSuccess
    \/ StepFailure
    \/ CompletionSuccess
    \/ CompletionFailure

(***************************************************************************)
(* The TM funnel of the example: the producer threads add a TM to the TM   *)
(* store and send its address on a clone of tm_funnel_tx; the funnel       *)
(* thread receives one address, rewrites the TM in place and sends the     *)
(* address on tm_server_tx.                                                *)
(***************************************************************************)
\* the threads that own a clone of tm_funnel_tx
Producers == {"TMTC", "Event"}
\* the services of the TMs the producers generate
TmServices == {1, 5}

\* the address the TM store hands out next: the slots are taken in order
\* and nothing frees a slot before the TM server has read it
next_free_addr(store) == Cardinality(DOMAIN store) + 1

\* tm_store.add_pus_tm: the TM is written to a free slot
add_pus_tm(store, service) ==
    [a \in DOMAIN store \cup {next_free_addr(store)} |->
        IF a \in DOMAIN store THEN store[a] ELSE service]

\* the producer of an address in the store
producer_of(addr) ==
    CHOOSE p \in Producers : \E i \in DOMAIN producer_sent[p] : producer_sent[p][i] = addr

\* a producer: add the TM to the store, send the address to the funnel
producer_send(p, service) ==
    /\ tm_store' = add_pus_tm(tm_store, service)
    /\ tm_funnel_q' = Append(tm_funnel_q, next_free_addr(tm_store))
    /\ producer_sent' = [producer_sent EXCEPT ![p] = Append(@, next_free_addr(tm_store))]
    /\ UNCHANGED <<tm_server_q, tm_server_connected, funnel_pc, funnel_addr,
                   funnel_received, seq_count, msg_counter_map, funnel_panicked>>
    /\ UNCHANGED outside_funnel

\* seq_count_provider.get_and_increment()
get_and_increment(count) == count + 1

\* let entry = msg_counter_map.entry(service).or_insert(0); the counter
\* wraps from u16::MAX to 0
msg_counter_incremented(map, service) ==
    [map EXCEPT ![service] = IF @ = 65535 THEN 0 ELSE @ + 1]

\* the funnel thread: tm_funnel_rx.recv() returned Ok(addr); the TM is
\* modified in the pool under the write lock, then the thread goes on to
\* send the address
funnel_recv ==
    LET addr == Head(tm_funnel_q)
    IN  /\ tm_funnel_q' = Tail(tm_funnel_q)
        /\ funnel_received' = Append(funnel_received, addr)
        /\ IF addr \in DOMAIN tm_store
           THEN /\ seq_count' = get_and_increment(seq_count)
                /\ msg_counter_map' = msg_counter_incremented(msg_counter_map, tm_store[addr])
                /\ funnel_addr' = addr
                /\ funnel_pc' = "send"
                /\ UNCHANGED funnel_panicked
           ELSE \* expect("Reading TM from pool failed")
                /\ funnel_panicked' = TRUE
                /\ UNCHANGED <<seq_count, msg_counter_map, funnel_addr, funnel_pc>>
        /\ UNCHANGED <<tm_store, tm_server_q, tm_server_connected, producer_sent>>
        /\ UNCHANGED outside_funnel

\* mutant: the address is put in front of the addresses already sent
funnel_forward_in_front(server_q, addr) == <<addr>> \o server_q

\* tm_funnel.tm_server_tx.send(addr)
funnel_forward(server_q, addr) == Append(server_q, addr)

\* the funnel thread: send the address on, or panic when the receiver is
\* gone (expect("Sending TM to server failed"))
funnel_send ==
    /\ IF tm_server_connected
       THEN /\ tm_server_q' = funnel_forward(tm_server_q, funnel_addr)
            /\ UNCHANGED funnel_panicked
       ELSE /\ funnel_panicked' = TRUE
            /\ UNCHANGED tm_server_q
    /\ funnel_pc' = "recv"
    /\ UNCHANGED <<tm_store, tm_funnel_q, tm_server_connected, funnel_addr,
                   funnel_received, producer_sent, seq_count, msg_counter_map>>
    /\ UNCHANGED outside_funnel

\* the thread that owns tm_server_rx ends: the receiver is dropped
drop_tm_server_rx ==
    /\ tm_server_connected' = FALSE
    /\ UNCHANGED <<tm_store, tm_funnel_q, tm_server_q, funnel_pc, funnel_addr,
                   funnel_received, producer_sent, seq_count, msg_counter_map,
                   funnel_panicked>>
    /\ UNCHANGED outside_funnel

\* main: both channels are empty and connected, the TM store is empty
InitFunnel ==
    /\ tm_store = <<>>
    /\ tm_funnel_q = <<>>
    /\ tm_server_q = <<>>
    /\ tm_server_connected = TRUE
    /\ funnel_pc = "recv"
    /\ funnel_addr = 0
    /\ funnel_received = <<>>
    /\ producer_sent = [p \in Producers |-> <<>>]
    /\ seq_count = 0
    /\ msg_counter_map = [s \in TmServices |-> 0]
    /\ funnel_panicked = FALSE

ProducerSend ==
    \E p \in Producers, service \in TmServices :
        /\ Len(producer_sent[p]) < MaxFunnelTm
        /\ producer_send(p, service)
FunnelRecv ==
    /\ ~funnel_panicked
    /\ funnel_pc = "recv"
    /\ tm_funnel_q # <<>>
    /\ funnel_recv
FunnelSend ==
    /\ ~funnel_panicked
    /\ funnel_pc = "send"
    /\ funnel_send
DropTmServerRx ==
    /\ tm_server_connected
    /\ drop_tm_server_rx

NextFunnel == ProducerSend \/ FunnelRecv \/ FunnelSend \/ DropTmServerRx

(***************************************************************************)
(* The service handlers of the example behind their TC channels, and the   *)
(* PUS handler thread that polls them.                                     *)
(***************************************************************************)
\* the handlers the PUS handler thread polls, in the order of the loop
Handlers == <<17, 11, 5>>
HandlerIds == {Handlers[i] : i \in DOMAIN Handlers}
\* what handle_one_tc can return for a TC it was given
HandleOutcomes == {"RequestHandled", "RequestHandledPartialSuccess", "Error"}

NoSvcCall == [handler |-> 0, result |-> "-", tc |-> 0, alive |-> TRUE]

\* mutant: a channel without senders reports Disconnected although TCs
\* are still queued
try_recv_disconnected_first(q, alive) ==
    IF ~alive THEN "Disconnected" ELSE IF q # <<>> THEN "Ok" ELSE "Empty"

\* self.tc_rx.try_recv() on an mpsc channel: the oldest queued value, else
\* Empty while a sender exists and Disconnected once all are dropped
try_recv(q, alive) ==
    IF q # <<>> THEN "Ok" ELSE IF alive THEN "Empty" ELSE "Disconnected"

\* handle_next_packet: Ok((addr, token)) => handle_one_tc(addr, token),
\* Empty => Ok(Empty), Disconnected => Err(QueueDisconnected)
handle_next_packet(h, outcome) ==
    LET received == try_recv(tc_rx[h], tc_tx_alive[h])
    IN  CASE received = "Ok" ->
               /\ tc_rx' = [tc_rx EXCEPT ![h] = Tail(@)]
               /\ svc_handled' = [svc_handled EXCEPT ![h] =
                      Append(@, [tc |-> Head(tc_rx[h]), alive |-> tc_tx_alive[h]])]
               /\ svc_call' = [handler |-> h, result |-> outcome,
                               tc |-> Head(tc_rx[h]), alive |-> tc_tx_alive[h]]
          [] received = "Empty" ->
               /\ svc_call' = [handler |-> h, result |-> "Empty", tc |-> 0,
                               alive |-> tc_tx_alive[h]]
               /\ UNCHANGED <<tc_rx, svc_handled>>
          [] received = "Disconnected" ->
               /\ svc_call' = [handler |-> h, result |-> "QueueDisconnected",
                               tc |-> 0, alive |-> tc_tx_alive[h]]
               /\ UNCHANGED <<tc_rx, svc_handled>>

\* the wrapper of a handler: true ("the handler is finished") only for
\* Ok(Empty); an error is logged and false is returned
srv_handler_finished(result) == result = "Empty"

\* is_srv_finished: if !srv_handler_finished { all_queues_empty = false }
is_srv_finished(flag, finished) == IF ~finished THEN FALSE ELSE flag

\* the handler polled after the one at position i, 0 after the last
next_handler(i) == IF i < Len(Handlers) THEN i + 1 ELSE 0

\* pus_11_wrapper.release_tcs(), then the inner loop starts a round
pus_thread_release ==
    /\ pus_thread_pc' = "poll"
    /\ poll_handler' = 1
    /\ all_queues_empty' = TRUE
    /\ UNCHANGED <<tc_rx, tc_tx_alive, svc_sent, svc_handled, svc_call>>
    /\ UNCHANGED outside_pus_thread

\* is_srv_finished(wrapper.handle_next_packet()) for the next handler
pus_thread_poll(outcome) ==
    /\ handle_next_packet(Handlers[poll_handler], outcome)
    /\ all_queues_empty' =
           is_srv_finished(all_queues_empty, srv_handler_finished(svc_call'.result))
    /\ poll_handler' = next_handler(poll_handler)
    /\ pus_thread_pc' = IF next_handler(poll_handler) = 0 THEN "check" ELSE "poll"
    /\ UNCHANGED <<tc_tx_alive, svc_sent>>
    /\ UNCHANGED outside_pus_thread

\* if all_queues_empty { break; } else the next round of the inner loop
pus_thread_check ==
    /\ IF all_queues_empty
       THEN /\ pus_thread_pc' = "sleep"
            /\ UNCHANGED <<poll_handler, all_queues_empty>>
       ELSE /\ pus_thread_pc' = "poll"
            /\ poll_handler' = 1
            /\ all_queues_empty' = TRUE
    /\ UNCHANGED <<tc_rx, tc_tx_alive, svc_sent, svc_handled, svc_call>>
    /\ UNCHANGED outside_pus_thread

\* thread::sleep(Duration::from_millis(200)), then the outer loop again
pus_thread_sleep ==
    /\ pus_thread_pc' = "release"
    /\ UNCHANGED <<tc_rx, tc_tx_alive, svc_sent, svc_handled, svc_call,
                   poll_handler, all_queues_empty>>
    /\ UNCHANGED outside_pus_thread

\* the distributor forwards an accepted TC to the channel of a handler
route_tc(h) ==
    /\ tc_rx' = [tc_rx EXCEPT ![h] = Append(@, svc_sent + 1)]
    /\ svc_sent' = svc_sent + 1
    /\ UNCHANGED <<tc_tx_alive, svc_handled, svc_call, pus_thread_pc,
                   poll_handler, all_queues_empty>>
    /\ UNCHANGED outside_pus_thread

\* the senders of a handler's channel are dropped
drop_tc_senders(h) ==
    /\ tc_tx_alive' = [tc_tx_alive EXCEPT ![h] = FALSE]
    /\ UNCHANGED <<tc_rx, svc_sent, svc_handled, svc_call, pus_thread_pc,
                   poll_handler, all_queues_empty>>
    /\ UNCHANGED outside_pus_thread

\* main: the channels are created empty, the thread starts its outer loop
InitPusThread ==
    /\ tc_rx = [h \in HandlerIds |-> <<>>]
    /\ tc_tx_alive = [h \in HandlerIds |-> TRUE]
    /\ svc_sent = 0
    /\ svc_handled = [h \in HandlerIds |-> <<>>]
    /\ svc_call = NoSvcCall
    /\ pus_thread_pc = "release"
    /\ poll_handler = 0
    /\ all_queues_empty = TRUE

RouteTc ==
    \E h \in HandlerIds :
        /\ tc_tx_alive[h]
        /\ svc_sent < MaxSvcTcs
        /\ route_tc(h)
DropTcSenders == \E h \in HandlerIds : tc_tx_alive[h] /\ drop_tc_senders(h)
PusThreadRelease == pus_thread_pc = "release" /\ pus_thread_release
PusThreadPoll ==
    /\ pus_thread_pc = "poll"
    /\ \E outcome \in HandleOutcomes : pus_thread_poll(outcome)
PusThreadCheck == pus_thread_pc = "check" /\ pus_thread_check
PusThreadSleep == pus_thread_pc = "sleep" /\ pus_thread_sleep

\* a step of the PUS handler thread
PusThreadStep ==
    PusThreadRelease \/ PusThreadPoll \/ PusThreadCheck \/ PusThreadSleep

NextPusThread ==
    \/ RouteTc
    \/ DropTcSenders
    \/ PusThreadRelease
    \/ PusThreadPoll
    \/ PusThreadCheck
    \/ PusThreadSleep

(***************************************************************************)
(* ObjectManager: system objects stored under their object id.             *)
(***************************************************************************)
\* ObjectId { id: u32, name: &'static str }; PartialEq, Eq and Hash are
\* derived, so two object ids are equal iff both fields are
ObjectId(id, name) == [id |-> id, name |-> name]
ObjectIds == {ObjectId(id, name) : id \in {0, 12}, name \in {"Example 0", "Example 1"}}
\* the objects of the tests: an object id and a payload
SysObjects == {[id |-> oid, dummy |-> d, was_initialized |-> FALSE] : oid \in ObjectIds, d \in {42, 43}}

NoObjCall == [op |-> "-", obj |-> 0, before |-> <<>>, returned |-> FALSE]

\* self.obj_map.contains_key(obj_id)
contains_key(map, obj_id) == obj_id \in DOMAIN map

\* HashMap::insert: the value stored under the key afterwards is the new one
map_insert(map, key, value) ==
    [k \in DOMAIN map \cup {key} |-> IF k = key THEN value ELSE map[k]]

\* ObjectManager::insert
obj_insert(sys_obj) ==
    /\ IF contains_key(obj_map, sys_obj.id)
       THEN /\ UNCHANGED obj_map
            /\ obj_call' = [op |-> "insert", obj |-> sys_obj, before |-> obj_map,
                            returned |-> FALSE]
       ELSE /\ obj_map' = map_insert(obj_map, sys_obj.id, sys_obj)
            /\ obj_call' = [op |-> "insert", obj |-> sys_obj, before |-> obj_map,
                            returned |-> ~contains_key(obj_map, sys_obj.id)]
    /\ UNCHANGED outside_obj

\* ObjectManager::initialize: every object is initialized; the objects of
\* the tests always succeed
obj_initialize ==
    /\ obj_map' = [k \in DOMAIN obj_map |-> [obj_map[k] EXCEPT !.was_initialized = TRUE]]
    /\ obj_call' = [op |-> "initialize", obj |-> Cardinality(DOMAIN obj_map),
                    before |-> obj_map, returned |-> TRUE]
    /\ UNCHANGED outside_obj

\* ObjectManager::new
InitObj ==
    /\ obj_map = <<>>
    /\ obj_call = NoObjCall

ObjInsert == \E sys_obj \in SysObjects : obj_insert(sys_obj)
ObjInitialize == obj_initialize

NextObj == ObjInsert \/ ObjInitialize

(***************************************************************************)
(* The shared pool used from two threads: one adds a payload and sends its *)
(* store address, the other reads it through a PoolGuard.                  *)
(***************************************************************************)
DUMMY_DATA == <<0, 1, 2, 3>>
\* the payloads a thread adds
RECURSIVE PayloadsUpTo(_)
PayloadsUpTo(n) ==
    IF n = 0 THEN {<<>>}
    ELSE PayloadsUpTo(n - 1) \cup
         {Append(p, b) : p \in {q \in PayloadsUpTo(n - 1) : Len(q) = n - 1}, b \in {0, 1}}
Payloads == {DUMMY_DATA} \cup PayloadsUpTo(MaxPayloadLen)

\* StaticPoolConfig::new(vec![(16, 6), (32, 3), (8, 12)]): the buckets,
\* sorted ascending by slot size
pool_cfg ==
    <<[num_slots |-> 32, slot_bytes |-> 3], [num_slots |-> 16, slot_bytes |-> 6],
      [num_slots |-> 8, slot_bytes |-> 12]>>

StoreAddress(pool_idx, slot_idx) == [pool_idx |-> pool_idx, slot_idx |-> slot_idx]
NoStoreAddress == StoreAddress(0, 0)

\* has_element_at(addr)
has_element_at(pool, addr) == addr \in DOMAIN pool

\* the buckets with a free slot of at least len bytes
fitting_buckets(pool, len) ==
    {i \in DOMAIN pool_cfg :
        /\ pool_cfg[i].slot_bytes >= len
        /\ \E s \in 1..pool_cfg[i].num_slots : ~has_element_at(pool, StoreAddress(i, s))}

\* alloc(len): the smallest bucket with slot_bytes >= len that has a free
\* slot, and its first free slot; NoStoreAddress for OutOfSlots
alloc(pool, len) ==
    IF fitting_buckets(pool, len) = {} THEN NoStoreAddress
    ELSE LET i == CHOOSE b \in fitting_buckets(pool, len) :
                      \A c \in fitting_buckets(pool, len) : b <= c
             s == CHOOSE f \in 1..pool_cfg[i].num_slots :
                      /\ ~has_element_at(pool, StoreAddress(i, f))
                      /\ \A g \in 1..(f - 1) : has_element_at(pool, StoreAddress(i, g))
         IN  StoreAddress(i, s)

\* write(addr, bytes): the slot remembers the payload
pool_write(pool, addr, data) ==
    [a \in DOMAIN pool \cup {addr} |-> IF a = addr THEN data ELSE pool[a]]

\* read(addr): exactly the payload written
pool_read(pool, addr) == pool[addr]

\* mutant: the guard goes out of scope without releasing its slot
pool_guard_drop_keeps_slot(pool, addr) == pool

\* a PoolGuard goes out of scope: the slot it pins is released
pool_guard_drop(pool, addr) == [a \in DOMAIN pool \ {addr} |-> pool[a]]

\* jh0: let mut dummy = shared_pool.write().unwrap()
jh0_lock ==
    /\ pool_lock' = "jh0:write"
    /\ jh0_pc' = "add"
    /\ UNCHANGED <<shared_pool, pool_chan, pool_sent, jh0_addr, jh1_pc, jh1_addr,
                   jh1_read, jh1_has_element, pool_panicked>>
    /\ UNCHANGED outside_pool

\* jh0: let addr = dummy.add(&data).expect("Writing data failed")
jh0_add(data) ==
    LET addr == alloc(shared_pool, Len(data))
    IN  /\ IF addr = NoStoreAddress
           THEN /\ pool_panicked' = TRUE
                /\ pool_lock' = "-"
                /\ jh0_pc' = "done"
                /\ UNCHANGED <<shared_pool, jh0_addr, pool_sent>>
           ELSE /\ shared_pool' = pool_write(shared_pool, addr, data)
                /\ jh0_addr' = addr
                /\ pool_sent' = [addr |-> addr, data |-> data]
                /\ jh0_pc' = "send"
                /\ UNCHANGED <<pool_lock, pool_panicked>>
        /\ UNCHANGED <<pool_chan, jh1_pc, jh1_addr, jh1_read, jh1_has_element>>
        /\ UNCHANGED outside_pool

\* jh0: tx.send(addr)
jh0_send ==
    /\ pool_chan' = Append(pool_chan, jh0_addr)
    /\ jh0_pc' = "end"
    /\ UNCHANGED <<shared_pool, pool_lock, pool_sent, jh0_addr, jh1_pc, jh1_addr,
                   jh1_read, jh1_has_element, pool_panicked>>
    /\ UNCHANGED outside_pool

\* jh0: the closure ends, the write guard `dummy` is dropped
jh0_end ==
    /\ pool_lock' = "-"
    /\ jh0_pc' = "done"
    /\ UNCHANGED <<shared_pool, pool_chan, pool_sent, jh0_addr, jh1_pc, jh1_addr,
                   jh1_read, jh1_has_element, pool_panicked>>
    /\ UNCHANGED outside_pool

\* jh1: addr = rx.recv().expect("Receiving store address failed")
jh1_recv ==
    /\ jh1_addr' = Head(pool_chan)
    /\ pool_chan' = Tail(pool_chan)
    /\ jh1_pc' = "lock"
    /\ UNCHANGED <<shared_pool, pool_lock, pool_sent, jh0_pc, jh0_addr, jh1_read,
                   jh1_has_element, pool_panicked>>
    /\ UNCHANGED outside_pool

\* jh1: let mut pool_access = shared_clone.write().unwrap()
jh1_lock ==
    /\ pool_lock' = "jh1:write"
    /\ jh1_pc' = "guard"
    /\ UNCHANGED <<shared_pool, pool_chan, pool_sent, jh0_pc, jh0_addr, jh1_addr,
                   jh1_read, jh1_has_element, pool_panicked>>
    /\ UNCHANGED outside_pool

\* jh1: let pg = PoolGuard::new(..., addr); pg.read().expect("Reading
\* failed"); assert_eq!(read_res, DUMMY_DATA) is the subject of the check
jh1_guard_read ==
    /\ IF has_element_at(shared_pool, jh1_addr)
       THEN /\ jh1_read' = pool_read(shared_pool, jh1_addr)
            /\ UNCHANGED pool_panicked
       ELSE /\ pool_panicked' = TRUE
            /\ UNCHANGED jh1_read
    /\ jh1_pc' = "scope"
    /\ UNCHANGED <<shared_pool, pool_lock, pool_chan, pool_sent, jh0_pc, jh0_addr,
                   jh1_addr, jh1_has_element>>
    /\ UNCHANGED outside_pool

\* jh1: the block ends: pg is dropped, then pool_access
jh1_scope_exit ==
    /\ shared_pool' = pool_guard_drop(shared_pool, jh1_addr)
    /\ pool_lock' = "-"
    /\ jh1_pc' = "read_lock"
    /\ UNCHANGED <<pool_chan, pool_sent, jh0_pc, jh0_addr, jh1_addr, jh1_read,
                   jh1_has_element, pool_panicked>>
    /\ UNCHANGED outside_pool

\* jh1: let pool_access = shared_clone.read().unwrap()
jh1_read_lock ==
    /\ pool_lock' = "jh1:read"
    /\ jh1_pc' = "check"
    /\ UNCHANGED <<shared_pool, pool_chan, pool_sent, jh0_pc, jh0_addr, jh1_addr,
                   jh1_read, jh1_has_element, pool_panicked>>
    /\ UNCHANGED outside_pool

\* jh1: assert!(!pool_access.has_element_at(&addr)...), then the closure ends
jh1_check ==
    /\ jh1_has_element' = has_element_at(shared_pool, jh1_addr)
    /\ pool_panicked' = (pool_panicked \/ has_element_at(shared_pool, jh1_addr))
    /\ pool_lock' = "-"
    /\ jh1_pc' = "done"
    /\ UNCHANGED <<shared_pool, pool_chan, pool_sent, jh0_pc, jh0_addr, jh1_addr,
                   jh1_read>>
    /\ UNCHANGED outside_pool

\* threaded_usage: the pool is empty, both threads are spawned
InitPool ==
    /\ shared_pool = <<>>
    /\ pool_lock = "-"
    /\ pool_chan = <<>>
    /\ pool_sent = [addr |-> NoStoreAddress, data |-> <<>>]
    /\ jh0_pc = "lock"
    /\ jh0_addr = NoStoreAddress
    /\ jh1_pc = "recv"
    /\ jh1_addr = NoStoreAddress
    /\ jh1_read = <<>>
    /\ jh1_has_element = FALSE
    /\ pool_panicked = FALSE

Jh0Lock == jh0_pc = "lock" /\ pool_lock = "-" /\ jh0_lock
Jh0Add == jh0_pc = "add" /\ \E data \in Payloads : jh0_add(data)
Jh0Send == jh0_pc = "send" /\ jh0_send
Jh0End == jh0_pc = "end" /\ jh0_end
Jh1Recv == jh1_pc = "recv" /\ pool_chan # <<>> /\ jh1_recv
Jh1Lock == jh1_pc = "lock" /\ pool_lock = "-" /\ jh1_lock
Jh1GuardRead == jh1_pc = "guard" /\ jh1_guard_read
Jh1ScopeExit == jh1_pc = "scope" /\ jh1_scope_exit
Jh1ReadLock == jh1_pc = "read_lock" /\ pool_lock = "-" /\ jh1_read_lock
Jh1Check == jh1_pc = "check" /\ jh1_check

NextPool ==
    \/ Jh0Lock
    \/ Jh0Add
    \/ Jh0Send
    \/ Jh0End
    \/ Jh1Recv
    \/ Jh1Lock
    \/ Jh1GuardRead
    \/ Jh1ScopeExit
    \/ Jh1ReadLock
    \/ Jh1Check

(***************************************************************************)
(* The locks of the two packet pools of the example, tc_store and          *)
(* tm_store, and the order in which the threads take and release them.     *)
(***************************************************************************)
PoolLocks == {"tc_store", "tm_store"}
LockThreads == {"TMTC", "TM Funnel", "PUS"}

acquire(lock) == <<"acquire", lock>>
release(lock) == <<"release", lock>>

\* send_verification_tm: self.tm_store.write(), the TM is written, drop(mg),
\* then the address is sent
send_verification_tm == <<acquire("tm_store"), release("tm_store")>>

\* add_pus_tm: self.pool.write(), the TM is written, the guard is dropped at
\* the end of the function
add_pus_tm_locks == <<acquire("tm_store"), release("tm_store")>>

\* the block at the start of handle_one_tc: tc_store.write(), the TC is
\* copied to pus_buf, the guard is dropped at the end of the block
copy_tc_locks == <<acquire("tc_store"), release("tc_store")>>

\* PusService11SchedHandler::handle_one_tc, TcEnableScheduling and
\* TcDisableScheduling: start_success, completion_success
sched_enable_locks == copy_tc_locks \o send_verification_tm \o send_verification_tm

\* PusService11SchedHandler::handle_one_tc, TcResetScheduling and
\* TcInsertActivity: start_success, let mut pool = tc_store.write(), the
\* scheduler is changed, completion_success, and `pool` is dropped at the
\* end of the match arm
sched_pool_locks ==
    copy_tc_locks \o send_verification_tm \o <<acquire("tc_store")>>
        \o send_verification_tm \o <<release("tc_store")>>

\* PusService17TestHandler::handle_one_tc for a ping: start_success,
\* add_pus_tm, completion_success
ping_locks ==
    copy_tc_locks \o send_verification_tm \o add_pus_tm_locks \o send_verification_tm

\* the TM funnel: shared_pool.write(), the TM is rewritten and the address
\* sent; pool_guard is dropped at the end of the if-let block
funnel_locks == <<acquire("tm_store"), release("tm_store")>>

\* PusReceiver::handle_tc_packet: acceptance_success
accept_locks == send_verification_tm

\* the operations of each thread and their lock steps
LockOps ==
    [t \in LockThreads |->
        CASE t = "PUS" -> {"sched_enable", "sched_pool", "ping"}
          [] t = "TM Funnel" -> {"funnel"}
          [] t = "TMTC" -> {"accept"}]

lock_steps(op) ==
    CASE op = "sched_enable" -> sched_enable_locks
      [] op = "sched_pool" -> sched_pool_locks
      [] op = "ping" -> ping_locks
      [] op = "funnel" -> funnel_locks
      [] op = "accept" -> accept_locks

\* the locks thread t holds
HeldBy(t) == {l \in PoolLocks : lock_holder[l] = t}

\* the lock step thread t does next (it is inside an operation)
next_lock_step(t) == lock_steps(thread_op[t])[thread_step[t] + 1]

\* thread t starts an operation
start_op(t, op) ==
    /\ thread_op' = [thread_op EXCEPT ![t] = op]
    /\ thread_step' = [thread_step EXCEPT ![t] = 0]
    /\ UNCHANGED lock_holder
    /\ UNCHANGED outside_locks

\* thread t takes the next lock step of its operation: write() returns
\* once nobody holds the lock; dropping the guard frees it
lock_step(t) ==
    LET step == next_lock_step(t)
        last == thread_step[t] + 1 = Len(lock_steps(thread_op[t]))
    IN  /\ IF step[1] = "acquire"
           THEN /\ lock_holder[step[2]] = "-"
                /\ lock_holder' = [lock_holder EXCEPT ![step[2]] = t]
           ELSE lock_holder' = [lock_holder EXCEPT ![step[2]] = "-"]
        /\ thread_step' = [thread_step EXCEPT ![t] = IF last THEN 0 ELSE @ + 1]
        /\ thread_op' = [thread_op EXCEPT ![t] = IF last THEN "-" ELSE @]
        /\ UNCHANGED outside_locks

\* main: no lock is held, no thread is inside an operation
InitLocks ==
    /\ lock_holder = [l \in PoolLocks |-> "-"]
    /\ thread_op = [t \in LockThreads |-> "-"]
    /\ thread_step = [t \in LockThreads |-> 0]

StartOp == \E t \in LockThreads : thread_op[t] = "-" /\ \E op \in LockOps[t] : start_op(t, op)
LockStep == \E t \in LockThreads : thread_op[t] # "-" /\ lock_step(t)

NextLocks == StartOp \/ LockStep

(***************************************************************************)
(* The TCP server with COBS framing: one connection of                     *)
(* handle_next_connection, its client and its TM source.                   *)
(***************************************************************************)
\* the telecommands the client frames and the packets of the TM source
ClientPayloads == {<<1>>, <<0>>}
TmPayloads == {<<1>>, <<1, 0>>}

\* encode_simple_packet: 0 | cobs::encode(packet) | 0
encode_packet(packet) == <<0>> \o cobs_encode(packet) \o <<0>>

\* ServerConfig::tc_buffer_size: large enough for everything the client sends
tc_buffer_size == 4 * (MaxClientFrames + 1)

\* the frames of all packets of the TM source, in order
RECURSIVE encode_all(_)
encode_all(queue) ==
    IF queue = <<>> THEN <<>> ELSE encode_packet(Head(queue)) \o encode_all(Tail(queue))

\* conn_result.num_sent_tms += 1 for every packet retrieved
num_sent_tms_counted(num_sent_tms, queue) == num_sent_tms + Len(queue)

\* CobsTmSender::handle_tm_sending: packets are retrieved, counted, encoded
\* and written until retrieve_packet returns 0; Ok(tm_was_sent)
handle_tm_sending(queue, num_sent_tms) ==
    [tm_was_sent |-> queue # <<>>,
     num_sent_tms |-> num_sent_tms_counted(num_sent_tms, queue),
     written |-> encode_all(queue)]

\* CobsTcParser::handle_tc_parsing: conn_result.num_received_tcs +=
\* parse_buffer_for_cobs_encoded_packets(&mut tc_buffer[..current_write_idx])
tcp_handle_tc_parsing(buf) == parse_buffer_for_cobs_encoded_packets(buf, 0)

\* one iteration of the loop of the connection handler: chunk is what the
\* read returned, closed whether it returned 0 bytes because the client
\* has shut down its write side
connection_iteration(chunk, closed) ==
    LET parsed == IF chunk # <<>> THEN tcp_handle_tc_parsing(tcp_buf \o chunk)
                  ELSE [NotParsed EXCEPT !.buf = tcp_buf,
                                         !.next_write_idx = Len(tcp_buf)]
        sent == handle_tm_sending(tm_queue, conn_result.num_sent_tms)
    IN  /\ conn_in' = SubSeq(conn_in, Len(chunk) + 1, Len(conn_in))
        /\ tcp_buf' = SubSeq(parsed.buf, 1, parsed.next_write_idx)
        /\ tcp_passed' = tcp_passed \o parsed.passed
        /\ conn_result' =
               [num_received_tcs |-> conn_result.num_received_tcs + parsed.packets_found,
                num_sent_tms |-> sent.num_sent_tms]
        /\ tm_queue' = <<>>
        /\ conn_out' = conn_out \o sent.written
        /\ tcp_pc' = IF closed /\ ~sent.tm_was_sent THEN "returned" ELSE "loop"
        /\ UNCHANGED <<client_frames, client_shutdown, tm_added>>
        /\ UNCHANGED outside_tcp

\* SyncTmSource::add_tm
add_tm(tm) ==
    /\ tm_queue' = Append(tm_queue, tm)
    /\ tm_added' = tm_added + 1
    /\ UNCHANGED <<conn_in, client_frames, client_shutdown, conn_out, tcp_buf,
                   conn_result, tcp_passed, tcp_pc>>
    /\ UNCHANGED outside_tcp

\* the server accepts the connection of the client
accept_connection ==
    /\ tcp_pc' = "loop"
    /\ UNCHANGED <<conn_in, client_frames, client_shutdown, tm_queue, tm_added,
                   conn_out, tcp_buf, conn_result, tcp_passed>>
    /\ UNCHANGED outside_tcp

\* the client: stream.write_all(frame)
client_write(packet) ==
    /\ conn_in' = conn_in \o encode_packet(packet)
    /\ client_frames' = client_frames + 1
    /\ UNCHANGED <<client_shutdown, tm_queue, tm_added, conn_out, tcp_buf,
                   conn_result, tcp_passed, tcp_pc>>
    /\ UNCHANGED outside_tcp

\* the client: stream.shutdown(Shutdown::Write)
client_shutdown_write ==
    /\ client_shutdown' = TRUE
    /\ UNCHANGED <<conn_in, client_frames, tm_queue, tm_added, conn_out, tcp_buf,
                   conn_result, tcp_passed, tcp_pc>>
    /\ UNCHANGED outside_tcp

\* the server is constructed, the TM source is empty, no client yet
InitTcp ==
    /\ conn_in = <<>>
    /\ client_frames = 0
    /\ client_shutdown = FALSE
    /\ tm_queue = <<>>
    /\ tm_added = 0
    /\ conn_out = <<>>
    /\ tcp_buf = <<>>
    /\ conn_result = [num_received_tcs |-> 0, num_sent_tms |-> 0]
    /\ tcp_passed = <<>>
    /\ tcp_pc = "accept"

AddTm ==
    /\ tcp_pc = "accept"
    /\ tm_added < MaxTmPackets
    /\ \E tm \in TmPayloads : add_tm(tm)
AcceptConnection == tcp_pc = "accept" /\ accept_connection
ClientWrite ==
    /\ ~client_shutdown
    /\ client_frames < MaxClientFrames
    /\ \E packet \in ClientPayloads : client_write(packet)
ClientShutdownWrite == ~client_shutdown /\ client_shutdown_write
\* a read that returns some of the bytes the client wrote
ReadChunk ==
    /\ tcp_pc = "loop"
    /\ \E n \in 1..Len(conn_in) :
         /\ Len(tcp_buf) + n <= tc_buffer_size
         /\ connection_iteration(SubSeq(conn_in, 1, n), FALSE)
\* a read that returns 0 bytes: the client has shut down its write side
ReadClosed ==
    /\ tcp_pc = "loop"
    /\ conn_in = <<>>
    /\ client_shutdown
    /\ connection_iteration(<<>>, TRUE)
\* a read that times out: nothing to read, the client may still write
ReadTimeout ==
    /\ tcp_pc = "loop"
    /\ conn_in = <<>>
    /\ ~client_shutdown
    /\ connection_iteration(<<>>, FALSE)

\* a step of the thread that handles the connection
ServerStep == AcceptConnection \/ ReadChunk \/ ReadClosed \/ ReadTimeout

NextTcp ==
    \/ AddTm
    \/ AcceptConnection
    \/ ClientWrite
    \/ ClientShutdownWrite
    \/ ReadChunk
    \/ ReadClosed
    \/ ReadTimeout

(***************************************************************************)
(* The PUS 17 ping handlers: what handle_one_tc returns for a ping when    *)
(* its steps fail. satrs-core/src/pus/test.rs and                          *)
(* satrs-example/src/pus/test.rs                                           *)
(***************************************************************************)
PingHandlers == {"satrs-core", "satrs-example"}
NoPingCall == [handler |-> "-"]

\* Option<PartialPusHandlingError>: a later failure replaces an earlier one
partial_error_after(partial_error, ok, error) ==
    IF ok THEN partial_error ELSE error

\* the end of the ping branch: RequestHandledPartialSuccess(partial_error)
\* if partial_error is set, RequestHandled otherwise
ping_result(partial_error) ==
    IF partial_error # "None"
    THEN [kind |-> "Ok", value |-> "RequestHandledPartialSuccess",
          partial_error |-> partial_error]
    ELSE [kind |-> "Ok", value |-> "RequestHandled", partial_error |-> "None"]

\* the steps of the ping branch that were attempted, in order
ping_steps(start_ok) ==
    <<"timestamp", "start_success", "ping_reply">>
    \o (IF completion_attempted(start_ok) THEN <<"completion_success">> ELSE <<>>)

\* satrs-core PusService17TestHandler::handle_one_tc, subservice 1:
\* get_current_timestamp(&mut partial_error) records a failed timestamp
core_handle_ping(stamp_ok, start_ok, reply_ok, completion_ok) ==
    LET e1 == partial_error_after("None", stamp_ok, "Time")
        e2 == partial_error_after(e1, start_ok, "Verification")
        e3 == partial_error_after(e2, reply_ok, "TmSend")
        e4 == IF completion_attempted(start_ok)
              THEN partial_error_after(e3, completion_ok, "Verification")
              ELSE e3
    IN  [steps |-> ping_steps(start_ok), result |-> ping_result(e4)]

\* satrs-example PusService17TestHandler::handle_one_tc, subservice 1:
\* partial_result = update_stamp().err() is not read again; add_pus_tm
\* panics when the TM store has no free element
example_handle_ping(stamp_ok, start_ok, store_ok, reply_ok, completion_ok) ==
    LET partial_result == partial_error_after("None", stamp_ok, "TimeError")
        e2 == partial_error_after("None", start_ok, "VerificationError")
        e3 == partial_error_after(e2, reply_ok, "TmSendError")
        e4 == IF completion_attempted(start_ok)
              THEN partial_error_after(e3, completion_ok, "VerificationError")
              ELSE e3
    IN  IF ~store_ok
        THEN [steps |-> <<"timestamp", "start_success">>,
              result |-> [kind |-> "panic", value |-> "Store error",
                          partial_error |-> e2]]
        ELSE [steps |-> ping_steps(start_ok), result |-> ping_result(e4)]

\* a ping handled by one of the handlers
handle_ping(handler, stamp_ok, start_ok, store_ok, reply_ok, completion_ok) ==
    LET out == IF handler = "satrs-core"
               THEN core_handle_ping(stamp_ok, start_ok, reply_ok, completion_ok)
               ELSE example_handle_ping(stamp_ok, start_ok, store_ok, reply_ok,
                                        completion_ok)
    IN  /\ ping_call' = [handler |-> handler, stamp_ok |-> stamp_ok,
                         start_ok |-> start_ok, store_ok |-> store_ok,
                         reply_ok |-> reply_ok, completion_ok |-> completion_ok,
                         steps |-> out.steps, result |-> out.result]
        /\ ping_count' = ping_count + 1
        /\ UNCHANGED outside_ping

InitPing ==
    /\ ping_call = NoPingCall
    /\ ping_count = 0

\* the TM sender of satrs-core does not use the TM store of the example
CoreHandlePing ==
    /\ ping_count < MaxPings
    /\ \E stamp_ok \in BOOLEAN, start_ok \in BOOLEAN, reply_ok \in BOOLEAN,
          completion_ok \in BOOLEAN :
           handle_ping("satrs-core", stamp_ok, start_ok, TRUE, reply_ok,
                       completion_ok)
ExampleHandlePing ==
    /\ ping_count < MaxPings
    /\ \E stamp_ok \in BOOLEAN, start_ok \in BOOLEAN, store_ok \in BOOLEAN,
          reply_ok \in BOOLEAN, completion_ok \in BOOLEAN :
           handle_ping("satrs-example", stamp_ok, start_ok, store_ok, reply_ok,
                       completion_ok)

NextPing ==
    \/ CoreHandlePing
    \/ ExampleHandlePing

(***************************************************************************)
(* The PUS 11 scheduler service handler: satrs-example/src/pus/scheduler.rs *)
(***************************************************************************)
\* scheduling::Subservice: enable, disable, reset, insert activity
TcEnableScheduling == 1
TcDisableScheduling == 2
TcResetScheduling == 3
TcInsertActivity == 4
\* a standard subservice the handler has no arm for, and a custom one
TcDeleteActivity == 5
CustomSchedSubservice == 128
HandledSubservices ==
    {TcEnableScheduling, TcDisableScheduling, TcResetScheduling, TcInsertActivity}
SchedSubservices == HandledSubservices \cup {TcDeleteActivity, CustomSchedSubservice}
NoSchedSvcCall == [subservice |-> 0]

\* what handle_one_tc returns when no step panicked: the early return for a
\* subservice that is not a scheduling subservice, the return of the `_`
\* arm, and the last line of the function after the match, which the four
\* arms of the standard subservices fall through to
sched_svc_result(subservice) ==
    [kind |-> "Ok", value |-> "CustomSubservice", token |-> "accepted"]

\* the scheduler operation of an arm can fail only for reset and insert
\* (reset(..).expect, insert_wrapped_tc(..).expect)
sched_op_fails(subservice, op_ok) ==
    subservice \in {TcResetScheduling, TcInsertActivity} /\ ~op_ok

\* PusService11SchedHandler::handle_one_tc for an accepted TC
sched_handle_one_tc(subservice, start_ok, op_ok, completion_ok) ==
    LET req == sched_svc_count + 1
        call(result) == [subservice |-> subservice, req |-> req,
                         start_ok |-> start_ok, op_ok |-> op_ok,
                         completion_ok |-> completion_ok, result |-> result]
        panic == [kind |-> "panic", value |-> "-", token |-> "-"]
    IN  /\ sched_svc_count' = req
        /\ IF subservice \notin HandledSubservices
           THEN /\ sched_svc_call' = call(sched_svc_result(subservice))
                /\ UNCHANGED <<sched_svc_log, sched_svc_panicked>>
           ELSE IF ~start_ok
           THEN /\ sched_svc_call' = call(panic)
                /\ sched_svc_panicked' = TRUE
                /\ UNCHANGED sched_svc_log
           ELSE IF sched_op_fails(subservice, op_ok) \/ ~completion_ok
           THEN /\ sched_svc_call' = call(panic)
                /\ sched_svc_panicked' = TRUE
                /\ sched_svc_log' = Append(sched_svc_log, <<req, "start_success">>)
           ELSE /\ sched_svc_call' = call(sched_svc_result(subservice))
                /\ sched_svc_log' = sched_svc_log \o
                       <<<<req, "start_success">>, <<req, "completion_success">>>>
                /\ UNCHANGED sched_svc_panicked
        /\ UNCHANGED outside_sched_svc

\* a caller that handles CustomSubservice(token) the way
\* Service17CustomWrapper::perform_operation does for a subservice it does
\* not know: start_failure(token, INVALID_PUS_SUBSERVICE)
custom_subservice_start_failure ==
    /\ sched_svc_call' = [sched_svc_call EXCEPT !.result.token = "-"]
    /\ sched_svc_log' = Append(sched_svc_log, <<sched_svc_call.req, "start_failure">>)
    /\ UNCHANGED <<sched_svc_count, sched_svc_panicked>>
    /\ UNCHANGED outside_sched_svc

InitSchedSvc ==
    /\ sched_svc_log = <<>>
    /\ sched_svc_call = NoSchedSvcCall
    /\ sched_svc_count = 0
    /\ sched_svc_panicked = FALSE

SchedHandleOneTc ==
    /\ ~sched_svc_panicked
    /\ sched_svc_count < MaxSchedTcs
    /\ \E subservice \in SchedSubservices, start_ok \in BOOLEAN,
          op_ok \in BOOLEAN, completion_ok \in BOOLEAN :
           sched_handle_one_tc(subservice, start_ok, op_ok, completion_ok)
CustomSubserviceStartFailure ==
    /\ ~sched_svc_panicked
    /\ sched_svc_call # NoSchedSvcCall
    /\ sched_svc_call.result.value = "CustomSubservice"
    /\ sched_svc_call.result.token = "accepted"
    /\ custom_subservice_start_failure

NextSchedSvc ==
    \/ SchedHandleOneTc
    \/ CustomSubserviceStartFailure

\* the state after construction of every component
Init == InitVerif /\ InitEvent /\ InitSched /\ InitCobs /\ InitCcsds
           /\ InitPusEvent /\ InitPus /\ InitFunnel
           /\ InitPusThread /\ InitObj /\ InitPool
           /\ InitLocks /\ InitTcp /\ InitPing
           /\ InitSchedSvc

SpecVerif == Init /\ [][NextVerif]_vars

(***************************************************************************)
(* The message counter over its whole range: one telecommand is accepted   *)
(* and started, and its steps are reported until the counter has passed    *)
(* u16::MAX.                                                               *)
(***************************************************************************)
CountAddTc ==
    \E r \in ReqIds : tokens = {} /\ add_tc_with_req_id(r)
CountAccept ==
    /\ Held("StateAccepted") = {}
    /\ \E token \in Held("StateNone"), send_ok \in BOOLEAN :
         acceptance_success(token, send_ok)
CountStart ==
    /\ Held("StateStarted") = {}
    /\ \E token \in Held("StateAccepted"), send_ok \in BOOLEAN :
         start_success(token, send_ok)
CountStep ==
    /\ sent_total < MaxCount
    /\ \E token \in Held("StateStarted"), send_ok \in BOOLEAN :
         step_success(token, 1, send_ok)

NextCount == CountAddTc \/ CountAccept \/ CountStart \/ CountStep

SpecCount == Init /\ [][NextCount]_vars

\* the event manager alone
SpecEvent == Init /\ [][NextEvent]_vars

(***************************************************************************)
(* The event queue: one listener of all events, several events in flight.  *)
(***************************************************************************)
QueueSubscribeAll ==
    /\ listeners = <<>>
    /\ \E sender_id \in SenderIds : subscribe_all(sender_id)
QueueAddSender ==
    /\ listeners # <<>>
    /\ \E sender_id \in SenderIds : add_sender(sender_id)
QueueSendEvent ==
    /\ Len(event_queue) < MaxQueue
    /\ \E msg \in Messages : send_event(msg)

NextQueue ==
    \/ QueueSubscribeAll
    \/ QueueAddSender
    \/ QueueSendEvent
    \/ TryEventHandling

SpecQueue == Init /\ [][NextQueue]_vars

\* the scheduler alone
SpecSched == Init /\ [][NextSched]_vars

\* the COBS parser alone
SpecCobs == Init /\ [][NextCobs]_vars

\* the CCSDS parser alone
SpecCcsds == Init /\ [][NextCcsds]_vars

\* Both parsers, each on the buffer of its own server; a read delivers a whole
\* frame, a whole packet or a stray byte.
CobsFrames == {<<0>> \o cobs_encode(p) \o <<0>> : p \in {<<>>, <<1>>, <<0>>}}
CcsdsSegments == {<<1, 0, 0, 0, 0, 0, 0>>, <<1, 0, 0, 0, 0, 1, 0, 0>>, <<0>>}

cobs_read_frame(frame) ==
    /\ cobs_parsed = NotParsed
    /\ Len(cobs_buf) + Len(frame) <= MaxBufLen
    /\ cobs_buf' = cobs_buf \o frame
    /\ UNCHANGED cobs_parsed
    /\ UNCHANGED outside_cobs

ccsds_read_segment(segment) ==
    /\ ccsds_parsed = NotParsed
    /\ Len(ccsds_buf) + Len(segment) <= MaxCcsdsLen
    /\ ccsds_buf' = ccsds_buf \o segment
    /\ UNCHANGED ccsds_parsed
    /\ UNCHANGED outside_ccsds

CobsReadFrame == \E frame \in CobsFrames : cobs_read_frame(frame)
CcsdsReadSegment == \E segment \in CcsdsSegments : ccsds_read_segment(segment)

NextParsers ==
    \/ CobsReadFrame
    \/ HandleTcParsing
    \/ CcsdsReadSegment
    \/ CcsdsHandleTcParsing

SpecParsers == Init /\ [][NextParsers]_vars

\* the backend providers of the PUS event TM manager alone
SpecBackends == Init /\ [][NextBackends]_vars

\* the PUS event TM manager alone
SpecPusEvent == Init /\ [][NextPusEvent]_vars

\* the PUS distributor and the test service alone
SpecPus == Init /\ [][NextPus]_vars

\* the TM funnel between its producers and the TM server
SpecFunnel == Init /\ [][NextFunnel]_vars

\* the PUS handler thread and the channels of its handlers
SpecPusThread == Init /\ [][NextPusThread]_vars

\* the object manager alone
SpecObj == Init /\ [][NextObj]_vars

\* the two threads around the shared pool
SpecPool == Init /\ [][NextPool]_vars

\* the threads of the example and the locks of its pools
SpecLocks == Init /\ [][NextLocks]_vars

\* one connection of the TCP server with COBS framing
SpecTcp == Init /\ [][NextTcp]_vars

\* pings handled by the PUS 17 handlers with failing steps
SpecPing == Init /\ [][NextPing]_vars

\* TCs handled by the PUS 11 scheduler service handler
SpecSchedSvc == Init /\ [][NextSchedSvc]_vars
\* the client shuts down eventually and the server thread keeps running
SpecTcpFair == SpecTcp /\ WF_vars(ServerStep) /\ WF_vars(ClientShutdownWrite)
\* the thread is scheduled again and again: it never stops for good
SpecPusThreadFair == SpecPusThread /\ WF_vars(PusThreadStep)

(***************************************************************************)
(* Properties of the verification reporter.                                *)
(***************************************************************************)
\* a step of the reporter that handed a TM to the sender
Emits == sent_total' # sent_total

\* a step in which a reporter method returned
Returns == vresult' # vresult

\* the lifecycle Accept -> Start -> Step* -> Complete|Fail: may a report of
\* `subservice` follow the reports `done` of the same request id
LifecycleAllows(done, subservice) ==
    CASE subservice \in {1, 2} -> done = {}
      [] subservice \in {3, 4} -> 1 \in done /\ done \cap {3, 4, 5, 6, 7, 8} = {}
      [] subservice \in {5, 6} -> 3 \in done /\ done \cap {7, 8} = {}
      [] subservice \in {7, 8} -> 3 \in done /\ done \cap {7, 8} = {}

\* C1: for every request id the verification TMs appear in lifecycle order:
\* an accept report (1 or 2) first and at most once, a start report (3 or
\* 4) only after accept-ok and at most once, step reports (5, 6) and one
\* completion report (7, 8) only after start-ok, and no report of an earlier
\* phase after a report of a later phase.
C1_LifecycleOrder ==
    [][Emits => LifecycleAllows(reported[last_tm'.req_id], last_tm'.subservice)]_vars

\* the reports that end the verification of a request
TerminalSubservices == {2, 4, 6, 7, 8}

\* C2: a terminal step (acceptance_failure, start_failure, step_failure,
\* completion_success, completion_failure) consumes its token: after it has
\* succeeded no further TM is emitted for the token's request, and a token
\* does not regress (a request that was accepted is not accepted again).
C2_TerminalStepConsumesToken ==
    [][Emits =>
         /\ reported[last_tm'.req_id] \cap TerminalSubservices = {}
         /\ last_tm'.subservice = 1 => 1 \notin reported[last_tm'.req_id]]_vars

\* the methods that take the token by value
ByValueCalls ==
    {"acceptance_success", "acceptance_failure", "start_success",
     "start_failure", "step_failure", "completion_success",
     "completion_failure"}

\* the subservice each method reports
SubserviceOf(call) ==
    CASE call = "acceptance_success" -> 1
      [] call = "acceptance_failure" -> 2
      [] call = "start_success" -> 3
      [] call = "start_failure" -> 4
      [] call = "step_success" -> 5
      [] call = "step_failure" -> 6
      [] call = "completion_success" -> 7
      [] call = "completion_failure" -> 8

\* C3: when the sender fails inside a method that takes the token by value,
\* the call returns the send error with a token equal to the one passed in
\* and msg_count is not incremented (nothing is emitted); calling the same
\* method again with the returned token while the sender works emits the TM
\* exactly once.
C3_SendFailureReturnsToken ==
    [][/\ (Returns /\ vresult'.outcome = "SendError"
                   /\ vresult'.call \in ByValueCalls) =>
            /\ vresult'.token = vresult'.arg
            /\ msg_count' = msg_count
            /\ sent_total' = sent_total
            /\ last_tm' = last_tm
       /\ (Returns /\ vresult'.retried /\ vresult'.outcome = "Ok"
                   /\ vresult'.call \in ByValueCalls) =>
            /\ sent_total' = sent_total + 1
            /\ last_tm'.subservice = SubserviceOf(vresult.call)
            /\ last_tm'.req_id = vresult.token.req_id
            /\ last_tm'.msg_count = msg_count
            /\ msg_count' = msg_count + 1]_vars

\* C3 witness: a call that failed in the sender was repeated with the
\* returned token and went through
C3_RetrySucceeded ==
    /\ vresult.retried
    /\ vresult.outcome = "Ok"
    /\ vresult.call \in ByValueCalls
    /\ last_tm.subservice = SubserviceOf(vresult.call)

\* C4 (as stated): the k-th successfully emitted TM, k = 0, 1, 2, ...,
\* carries msg_count = k.
C4_MsgCountIsEmissionIndex ==
    sent_total > 0 => last_tm.msg_count = sent_total - 1

\* C4 (amended): msg_count starts at 0, grows by one with each TM the sender
\* accepted and is unchanged by a failed call, all modulo 2^16: the k-th
\* emitted TM carries msg_count = k mod 65536.
C4_MsgCountModulo ==
    /\ sent_total > 0 => last_tm.msg_count = (sent_total - 1) % MsgCountModulus
    /\ ~panicked => msg_count = sent_total % MsgCountModulus
    /\ sent_total = 0 => msg_count = 0

\* C4 witness: the counter has wrapped: the TM after the 65536th carries 0
C4_CounterWrapped ==
    /\ sent_total = MsgCountModulus + 1
    /\ last_tm.msg_count = 0
    /\ msg_count = 1

\* the source data a report needs: the request id, the step if any, the
\* failure code and the failure data
NeededLen(args) == 4 + args.step_width + args.code_width + args.data_len

\* the reporter's buffer
BufferLen == 4 + step_field_width + fail_code_field_width + max_fail_data_len

\* C5: if the source data a report needs exceeds the reporter's buffer, the
\* call fails with a buffer-too-small error carrying expected = the needed
\* length and found = the buffer length, nothing is sent, msg_count is
\* unchanged and the original token is returned.
C5_BufferTooSmall ==
    [][(Returns /\ NeededLen(vresult'.args) > BufferLen) =>
         /\ vresult'.outcome = "ToSliceTooSmall"
         /\ vresult'.expected = NeededLen(vresult'.args)
         /\ vresult'.found = BufferLen
         /\ sent_total' = sent_total
         /\ last_tm' = last_tm
         /\ msg_count' = msg_count
         /\ vresult'.call \in ByValueCalls => vresult'.token = vresult'.arg]_vars

\* C5 witness: a step failure report that needs one byte more than the
\* buffer holds was refused
C5_OneByteTooMany ==
    /\ vresult.outcome = "ToSliceTooSmall"
    /\ vresult.call = "step_failure"
    /\ vresult.expected = BufferLen + 1
    /\ vresult.token = vresult.arg

(***************************************************************************)
(* Event manager properties.                                               *)
(***************************************************************************)
\* a step in which try_event_handling pulls an event from the receiver
Routing == event_queue # <<>> /\ event_queue' = Tail(event_queue)

\* the listener list of a key, empty for a key that is not in the table
ListOf(table, key) == IF key \in DOMAIN table THEN table[key] ELSE <<>>

\* how often `id` is listed under `key`
ListedTimes(table, id, key) ==
    Cardinality({i \in DOMAIN ListOf(table, key) : ListOf(table, key)[i] = id})

\* how often `id` is listed under the three keys `event` is routed under
Listed(id, event) ==
    ListedTimes(listeners, id, single_key(event))
    + ListedTimes(listeners, id, group_key(event))
    + ListedTimes(listeners, id, ListenerKeyAll)

\* the listener ids an event is routed to, in routing order
Listings(event) ==
    ListOf(listeners, single_key(event)) \o ListOf(listeners, group_key(event))
    \o ListOf(listeners, ListenerKeyAll)

\* successful sends of a log, and those to `id`
Deliveries(log) == {i \in DOMAIN log : log[i].outcome = "Ok"}
DeliveriesTo(log, id) == {i \in Deliveries(log) : log[i].id = id}
CopiesTo(log, id, msg) ==
    {i \in DeliveriesTo(log, id) :
        log[i].event = msg.event /\ log[i].aux_data = msg.aux_data}

\* C6 as stated: every sender id listed under Single(e.raw), Group(e.group_id)
\* or All receives exactly one (e, p) per listing, senders listed under other
\* keys only receive nothing, and the returned recipient count is the sum of
\* the lengths of the three listener lists.
C6_OneCopyPerListing ==
    [][Routing =>
        LET msg == Head(event_queue)
        IN /\ \A id \in SenderIds :
                /\ Cardinality(CopiesTo(sends', id, msg)) = Listed(id, msg.event)
                /\ DeliveriesTo(sends', id) = CopiesTo(sends', id, msg)
           /\ routed'.num_recipients = Len(Listings(msg.event))]_vars

\* C6 amended: a listed sender id that has a registered sender whose send
\* succeeds receives exactly one (e, p) per listing; any other id receives
\* nothing; the returned recipient count is the number of successful sends,
\* which is the sum of the three list lengths exactly when the call returns Ok.
C6_OneCopyPerSuccessfulListing ==
    [][Routing =>
        LET msg == Head(event_queue)
        IN /\ \A id \in SenderIds :
                /\ Cardinality(CopiesTo(sends', id, msg)) =
                       IF id \in senders \ disconnected
                       THEN Listed(id, msg.event) ELSE 0
                /\ DeliveriesTo(sends', id) = CopiesTo(sends', id, msg)
           /\ routed'.num_recipients = Cardinality(Deliveries(sends'))
           /\ routed'.ok <=>
                  routed'.num_recipients = Len(Listings(msg.event))]_vars

\* an event reached listeners under two of its keys without an error while a
\* sender listed under another key only received nothing
C6_RoutedUnderTwoKeys ==
    /\ routed.kind = "Handled" /\ routed.ok
    /\ routed.num_recipients >= 3
    /\ \E i, j \in DOMAIN sends : sends[i].key # sends[j].key
    /\ \E id \in SenderIds :
         /\ DeliveriesTo(sends, id) = {}
         /\ \E key \in DOMAIN listeners : ListedTimes(listeners, id, key) > 0

\* position of a key kind in the routing order of one event
KeyRank(key) == CASE key.kind = "Single" -> 1
                  [] key.kind = "Group" -> 2
                  [] key.kind = "All" -> 3

\* C7: for one routed event, all sends to listeners of its Single key happen
\* before all sends to listeners of its Group key, which happen before all
\* sends to listeners of the All key; every listing of the three keys is sent
\* to.
C7_SingleThenGroupThenAll ==
    [][Routing =>
        LET msg == Head(event_queue)
        IN /\ \A i, j \in DOMAIN sends' :
                i < j => KeyRank(sends'[i].key) <= KeyRank(sends'[j].key)
           /\ \A key \in {single_key(msg.event), group_key(msg.event),
                         ListenerKeyAll} :
                Cardinality({i \in DOMAIN sends' : sends'[i].key = key})
                    = Len(ListOf(listeners, key))
           /\ Len(sends') = Len(Listings(msg.event))]_vars

\* one event was sent to listeners of its Single, its Group and the All key
C7_AllThreeKeysSent ==
    /\ routed.kind = "Handled"
    /\ \A kind \in {"Single", "Group", "All"} :
         \E i \in DOMAIN sends : sends[i].key.kind = kind

\* the sender ids try_event_handling sent to under one key, in order
SentUnder(log, key) ==
    LET under == SelectSeq(log, LAMBDA a : a.key = key)
    IN [i \in DOMAIN under |-> under[i].id]

\* position of the first occurrence of `id` in a list that holds it
FirstAt(list, id) ==
    CHOOSE i \in DOMAIN list :
        list[i] = id /\ \A j \in 1..(i - 1) : list[j] # id

\* the ids listed in a list
IdsOf(list) == {list[i] : i \in DOMAIN list}

\* the ids listed in both lists are first listed in the same order in both
KeepsInsertionOrder(before, after) ==
    \A a, b \in IdsOf(before) \cap IdsOf(after) :
        FirstAt(after, a) < FirstAt(after, b)
            => FirstAt(before, a) < FirstAt(before, b)

\* try_event_handling sends to the listeners of each key in list order
SendsInListOrder ==
    Routing =>
        \A key \in DOMAIN listeners :
            key \in {single_key(Head(event_queue).event),
                     group_key(Head(event_queue).event), ListenerKeyAll}
                => SentUnder(sends', key) = listeners[key]

\* C8 as stated: within one listener key, delivery follows the order in which
\* the listeners were subscribed, and no subscribe_single / subscribe_group /
\* subscribe_all / remove_duplicates call changes that order.
C8_InsertionOrderStable ==
    [][/\ SendsInListOrder
       /\ \A key \in DOMAIN listeners :
            KeepsInsertionOrder(listeners[key], listeners'[key])]_vars

IsAscending(list) == \A i, j \in DOMAIN list : i < j => list[i] <= list[j]

\* C8 amended: within one listener key, delivery follows the key's list; a
\* subscription appends to the list, so the list is in subscription order
\* until remove_duplicates(key) puts it in ascending order of sender id.
C8_ListOrderSortedByRemoveDuplicates ==
    /\ [](/\ \A key \in ListenerKeys, id \in SenderIds :
              ListOf(add_listener(listeners, key, id), key)
                  = Append(ListOf(listeners, key), id)
          /\ \A key \in DOMAIN listeners :
              IsAscending(table_remove_duplicates(listeners, key)[key]))
    /\ [][/\ SendsInListOrder
          /\ \A key \in DOMAIN listeners :
               \/ listeners'[key] = listeners[key]
               \/ \E id \in SenderIds :
                    listeners'[key] = Append(listeners[key], id)
               \/ listeners'[key]
                      = table_remove_duplicates(listeners, key)[key]]_vars

\* an event was delivered, under one key, first to sender 1 and then to
\* sender 0: subscription order, not sender id order
C8_DeliveredInSubscriptionOrder ==
    /\ routed.kind = "Handled" /\ routed.ok
    /\ \E key \in DOMAIN listeners :
         /\ listeners[key] = <<1, 0>>
         /\ SentUnder(sends, key) = <<1, 0>>

\* C9: a sender subscribed n times to a key is sent n copies of a matching
\* event, one per listing; after remove_duplicates(k) every sender id that was
\* listed under k is listed exactly once under k, so it is sent one copy, and
\* the lists of the other keys are unchanged.
C9_RemoveDuplicates ==
    /\ [](\A k \in DOMAIN listeners :
            LET after == table_remove_duplicates(listeners, k)
            IN /\ DOMAIN after = DOMAIN listeners
               /\ \A id \in SenderIds :
                    ListedTimes(after, id, k) =
                        IF ListedTimes(listeners, id, k) > 0 THEN 1 ELSE 0
               /\ \A other \in DOMAIN listeners \ {k} :
                    after[other] = listeners[other])
    /\ [][Routing =>
            \A id \in SenderIds, key \in DOMAIN listeners :
                key \in {single_key(Head(event_queue).event),
                         group_key(Head(event_queue).event), ListenerKeyAll}
                    => Cardinality({i \in DOMAIN sends' :
                                       sends'[i].key = key /\ sends'[i].id = id})
                           = ListedTimes(listeners, id, key)]_vars

\* a sender listed twice under one key received two copies of one event
C9_TwoCopiesDelivered ==
    /\ routed.kind = "Handled"
    /\ \E key \in DOMAIN listeners, id \in SenderIds :
         /\ ListedTimes(listeners, id, key) = 2
         /\ Cardinality({i \in DeliveriesTo(sends, id) : sends[i].key = key}) = 2
         /\ ListedTimes(table_remove_duplicates(listeners, key), id, key) = 1

\* the errors of a log of sends, in order of occurrence
ErrorsOf(log) ==
    LET failed == SelectSeq(log, LAMBDA a : a.outcome # "Ok")
    IN [i \in DOMAIN failed |->
           [error |-> failed[i].outcome, id |-> failed[i].id]]

\* the first n elements of a sequence, all of them if it is shorter
FirstN(seq, n) == IF Len(seq) <= n THEN seq ELSE SubSeq(seq, 1, n)

\* C10: when routing one event hits errors (NoSenderForId for a listed id
\* without a registered sender, the sender's error for a failing send),
\* try_event_handling still sends to every listed listener and returns Err
\* with Handled(number of successful recipients, event, params) and the first
\* up to 3 errors in order of occurrence; later errors are discarded.
C10_ErrorsDoNotStopRouting ==
    [][Routing =>
        LET msg == Head(event_queue)
            ids == Listings(msg.event)
        IN /\ Len(sends') = Len(ids)
           /\ \A i \in DOMAIN ids :
                /\ sends'[i].id = ids[i]
                /\ sends'[i].outcome =
                       IF ids[i] \notin senders THEN "NoSenderForId"
                       ELSE IF ids[i] \in disconnected THEN "SendError"
                       ELSE "Ok"
           /\ routed'.kind = "Handled"
           /\ routed'.ok <=> ErrorsOf(sends') = <<>>
           /\ routed'.num_recipients = Cardinality(Deliveries(sends'))
           /\ routed'.event = msg.event
           /\ routed'.aux_data = msg.aux_data
           /\ routed'.errors = FirstN(ErrorsOf(sends'), 3)]_vars

\* four sends of one routing failed, for both reasons, and three errors were
\* returned
C10_FourthErrorDiscarded ==
    /\ routed.kind = "Handled" /\ ~routed.ok
    /\ Len(ErrorsOf(sends)) = 4
    /\ Len(routed.errors) = 3
    /\ \E i, j \in DOMAIN sends : sends[i].outcome = "NoSenderForId"
                                  /\ sends[j].outcome = "SendError"


\* a step of try_event_handling: the only step that returns a routing result
TryStep == routed'.kind # "-"

\* C11: each try_event_handling call consumes at most one event: with events
\* queued it returns Handled for the oldest one and leaves the others queued
\* in order, so q queued events give q Handled results in sending order; with
\* nothing queued it returns Empty and sends to no listener.
C11_OneEventPerCall ==
    [][TryStep =>
        IF event_queue = <<>>
        THEN /\ routed'.kind = "Empty"
             /\ sends' = <<>>
             /\ event_queue' = <<>>
        ELSE /\ routed'.kind = "Handled"
             /\ routed'.event = Head(event_queue).event
             /\ routed'.aux_data = Head(event_queue).aux_data
             /\ event_queue' = Tail(event_queue)
             /\ \A i \in DOMAIN sends' :
                  sends'[i].event = Head(event_queue).event]_vars

\* a call returned Handled for the first of several queued events and was
\* sent to a listener, while a different event sent later is still queued
C11_HandledOldestOfSeveral ==
    /\ routed.kind = "Handled" /\ routed.num_recipients = 1
    /\ Len(event_queue) >= 2
    /\ routed.event # Head(event_queue).event

(***************************************************************************)
(* Scheduler properties.                                                   *)
(***************************************************************************)
\* steps of the scheduler, by the call that made them
InsertStep == sched_call'.call = "insert_tc"
ReleaseStep == sched_call'.call = "release_telecommands"
ResetStep == sched_call'.call = "reset"

\* the addresses scheduled for a release time, none for a time without entry
ScheduledAt(map, time) == IF time \in DOMAIN map THEN map[time] ELSE <<>>

\* the number of scheduled telecommands of a schedule
RECURSIVE NumScheduled(_)
NumScheduled(map) ==
    IF DOMAIN map = {} THEN 0
    ELSE LET k == CHOOSE key \in DOMAIN map : TRUE
         IN Len(map[k]) + NumScheduled([key \in DOMAIN map \ {k} |-> map[key]])

C13_EveryInsertSchedules ==
    [][InsertStep => NumScheduled(tc_map') = NumScheduled(tc_map) + 1]_vars

\* the entries of a schedule due at a time, as (release time, position) pairs
Due(map, now) ==
    {<<k, i>> : k \in {key \in DOMAIN map : key <= now}, i \in 1..MaxInserts + 1}
        \cap {<<k, i>> \in (DOMAIN map) \X (1..MaxInserts + 1) : i <= Len(map[k])}

\* the due entries that are released before entry (k, i)
ReleasedBefore(map, now, k, i) ==
    {e \in Due(map, now) : e[1] < k \/ (e[1] = k /\ e[2] < i)}

\* C14: release_telecommands invokes the releaser exactly once for every
\* scheduled address whose key is <= current_time, keys in ascending order,
\* addresses of one key in insertion order, each call with the current
\* enabled flag; afterwards exactly the entries with key > current_time are
\* left, untouched, so that a repeated release invokes the releaser zero
\* times.
C14_ReleaseDueInOrder ==
    [][ReleaseStep =>
        LET released == sched_call'.released
            due == Due(tc_map, current_time)
        IN /\ Len(released) = Cardinality(due)
           /\ \A e \in due :
                released[Cardinality(ReleasedBefore(tc_map, current_time,
                                                    e[1], e[2])) + 1]
                    = [enabled |-> enabled, addr |-> tc_map[e[1]][e[2]]]
           /\ DOMAIN tc_map' = {k \in DOMAIN tc_map : k > current_time}
           /\ \A k \in DOMAIN tc_map' : tc_map'[k] = tc_map[k]
           /\ Due(tc_map', current_time') = {}]_vars

\* a release invoked the releaser for two release times, the earlier one
\* first, and left a later telecommand scheduled
C14_ReleasedTwoKeysKeptOne ==
    /\ sched_call.call = "release_telecommands"
    /\ Len(sched_call.released) = 2
    /\ sched_call.before = 3
    /\ \E k \in DOMAIN tc_map : k > current_time
    /\ current_time = 5

\* C15: reset leaves the scheduler disabled with zero scheduled telecommands
\* whatever was scheduled before, invokes no releaser, and leaves current_time
\* alone; a disabled scheduler is enabled by enable only.
C15_ResetDisablesAndEmpties ==
    [][/\ ResetStep =>
            /\ ~enabled'
            /\ tc_map' = <<>>
            /\ NumScheduled(tc_map') = 0
            /\ sched_call'.released = <<>>
            /\ current_time' = current_time
       /\ (~enabled /\ enabled') => sched_call'.call = "enable"]_vars

\* a reset discarded several scheduled telecommands of an enabled or disabled
\* scheduler
C15_ResetDiscardedEntries ==
    /\ sched_call.call = "reset"
    /\ sched_call.before >= 2
    /\ ~enabled /\ tc_map = <<>>

\* the store addresses a schedule holds
ScheduledAddrs(map) == UNION {{map[k][i] : i \in DOMAIN map[k]} : k \in DOMAIN map}

\* C16: after release_telecommands has released an address, and after reset
\* has emptied the schedule, no pool slot remains allocated for a telecommand
\* that is no longer in the schedule.
C16_SlotFreedOnReleaseOrReset ==
    [][(ReleaseStep \/ ResetStep) =>
        \A addr \in ScheduledAddrs(tc_map) \ ScheduledAddrs(tc_map') :
            addr \notin tc_pool']_vars

\* C17: telecommands that become due while the scheduler is disabled are still
\* in the schedule after release_telecommands calls made while disabled.
C17_DisabledKeepsDueEntries ==
    [][(ReleaseStep /\ ~enabled) => tc_map' = tc_map]_vars

(***************************************************************************)
(* COBS parser properties.                                                 *)
(***************************************************************************)
AllZero(b) == \A i \in DOMAIN b : b[i] = 0
ZeroFree(b) == \A i \in DOMAIN b : b[i] # 0

\* reference decoding of a COBS encoded, zero free body
RECURSIVE CobsDecoded(_)
CobsDecoded(body) ==
    IF body = <<>> \/ body[1] > Len(body) THEN <<>>
    ELSE IF body[1] = Len(body) THEN SubSeq(body, 2, Len(body))
    ELSE SubSeq(body, 2, body[1]) \o <<0>>
             \o CobsDecoded(SubSeq(body, body[1] + 1, Len(body)))

\* body is the COBS encoding of a payload
IsEncoded(body) == body # <<>> /\ ZeroFree(body) /\ cobs_encode(CobsDecoded(body)) = body

\* position of the first byte of b at or after `from` that is zero, or that
\* is not zero; Len(b) + 1 if there is none
FirstZero(b, from) ==
    IF \E i \in from..Len(b) : b[i] = 0
    THEN CHOOSE i \in from..Len(b) : b[i] = 0 /\ \A j \in from..(i - 1) : b[j] # 0
    ELSE Len(b) + 1
FirstNonZero(b, from) ==
    IF \E i \in from..Len(b) : b[i] # 0
    THEN CHOOSE i \in from..Len(b) : b[i] # 0 /\ \A j \in from..(i - 1) : b[j] = 0
    ELSE Len(b) + 1

\* b is made of frames 0 | cobs_encode(p) | 0 with runs of zeros of at least
\* min_run and at most max_run bytes before, between and after them
RECURSIVE IsFramesWithRuns(_, _, _)
IsFramesWithRuns(b, min_run, max_run) ==
    IF AllZero(b) THEN Len(b) >= min_run /\ Len(b) <= max_run
    ELSE LET first == FirstNonZero(b, 1)
             close == FirstZero(b, first)
         IN /\ first >= 2 + min_run /\ first <= 2 + max_run
            /\ close <= Len(b)
            /\ IsEncoded(SubSeq(b, first, close - 1))
            /\ IsFramesWithRuns(SubSeq(b, close + 1, Len(b)), min_run, max_run)

\* the payloads of such a buffer, in buffer order
RECURSIVE FramePayloads(_)
FramePayloads(b) ==
    IF AllZero(b) THEN <<>>
    ELSE LET first == FirstNonZero(b, 1)
             close == FirstZero(b, first)
         IN <<CobsDecoded(SubSeq(b, first, close - 1))>>
                \o FramePayloads(SubSeq(b, close + 1, Len(b)))

\* the parser was called with a receiver that accepts every packet of b
Parsed == cobs_parsed.result # "-"
ReceiverAccepts(b) ==
    cobs_parsed.fail_on = 0 \/ cobs_parsed.fail_on > Len(FramePayloads(b))

\* C18: for a buffer made of n back-to-back frames 0 | cobs_encode(p_i) | 0
\* the parser passes exactly the decoded payloads p_1..p_n to the TC receiver
\* (one that accepts them), once each and in buffer order, and returns n.
C18_BackToBackFrames ==
    (/\ Parsed
     /\ IsFramesWithRuns(cobs_parsed.parsed, 0, 0)
     /\ ReceiverAccepts(cobs_parsed.parsed))
        => /\ cobs_parsed.result = "Ok"
           /\ cobs_parsed.passed = FramePayloads(cobs_parsed.parsed)
           /\ cobs_parsed.packets_found = Len(FramePayloads(cobs_parsed.parsed))

\* two back-to-back frames with different payloads, one of them holding a
\* zero, were parsed
C18_TwoFramesParsed ==
    /\ Parsed
    /\ IsFramesWithRuns(cobs_parsed.parsed, 0, 0)
    /\ cobs_parsed.packets_found = 2
    /\ cobs_parsed.passed[1] # cobs_parsed.passed[2]
    /\ \E i \in 1..2 : cobs_parsed.passed[i] = <<0>>

\* b ends inside a frame: after back-to-back frames, or at the start of the
\* buffer, comes a start sentinel and at least one more byte of the frame,
\* none of them a sentinel
EndsInPartialFrame(b, start) ==
    /\ start \in DOMAIN b /\ start < Len(b)
    /\ b[start] = 0
    /\ ZeroFree(SubSeq(b, start + 1, Len(b)))
    /\ IsFramesWithRuns(SubSeq(b, 1, start - 1), 0, 0)

\* C19: whenever the buffer ends inside a COBS frame, the parser copies the
\* partial frame including its leading sentinel to the start of the buffer and
\* sets next_write_idx to its length, whether or not complete packets preceded
\* it.
C19_PartialFrameKept ==
    (Parsed /\ ReceiverAccepts(cobs_parsed.parsed)) =>
        \A start \in DOMAIN cobs_parsed.parsed :
            EndsInPartialFrame(cobs_parsed.parsed, start) =>
                LET partial == SubSeq(cobs_parsed.parsed, start,
                                      Len(cobs_parsed.parsed))
                IN /\ cobs_parsed.next_write_idx = Len(partial)
                   /\ SubSeq(cobs_parsed.buf, 1, Len(partial)) = partial

\* C20: runs of zero bytes produce no packets: an all-zero buffer yields count
\* 0, nothing passed and next_write_idx 0; runs of zeros before, between or
\* after frames leave every frame delivered, in order; zeros after the last
\* frame leave a 1 byte tail (next_write_idx = 1, buffer[0] = 0).
C20_ZeroRunsSkipped ==
    (/\ Parsed
     /\ IsFramesWithRuns(cobs_parsed.parsed, 0, MaxBufLen + 1)
     /\ ReceiverAccepts(cobs_parsed.parsed))
        => LET b == cobs_parsed.parsed
               n == Len(FramePayloads(b))
           IN /\ cobs_parsed.result = "Ok"
              /\ cobs_parsed.passed = FramePayloads(b)
              /\ cobs_parsed.packets_found = n
              /\ AllZero(b) => cobs_parsed.next_write_idx = 0
              /\ (n > 0 /\ Len(b) >= 2 /\ b[Len(b)] = 0 /\ b[Len(b) - 1] = 0)
                    => /\ cobs_parsed.next_write_idx = 1
                       /\ cobs_parsed.buf[1] = 0
              /\ (n > 0 /\ b[Len(b) - 1] # 0) => cobs_parsed.next_write_idx = 0

\* a frame between a run of zeros and a lone trailing zero was delivered and
\* the trailing zero kept
C20_FrameBetweenZeroRuns ==
    /\ Parsed
    /\ cobs_parsed.packets_found = 1
    /\ cobs_parsed.passed = <<<<1>>>>
    /\ Len(cobs_parsed.parsed) >= 7
    /\ cobs_parsed.parsed[2] = 0
    /\ cobs_parsed.parsed[Len(cobs_parsed.parsed) - 1] = 0
    /\ cobs_parsed.next_write_idx = 1

(***************************************************************************)
(* CCSDS parser properties.                                                *)
(***************************************************************************)
CcsdsParsed == ccsds_parsed.result # "-"

\* b starts with a space packet header that carries an accepted packet id;
\* the total length that header declares
HasValidHeader(b) ==
    Len(b) >= 6 /\ validate(packet_id_lookup, from_be_bytes(b[1], b[2]))
DeclaredLength(b) == from_be_bytes(b[5], b[6]) + 7

\* b is a concatenation of complete packets with accepted packet ids
RECURSIVE IsPackets(_)
IsPackets(b) ==
    \/ b = <<>>
    \/ /\ HasValidHeader(b)
       /\ DeclaredLength(b) <= Len(b)
       /\ IsPackets(SubSeq(b, DeclaredLength(b) + 1, Len(b)))

\* the packets of such a buffer, in buffer order
RECURSIVE PacketsOf(_)
PacketsOf(b) ==
    IF b = <<>> THEN <<>>
    ELSE <<SubSeq(b, 1, DeclaredLength(b))>>
             \o PacketsOf(SubSeq(b, DeclaredLength(b) + 1, Len(b)))

\* the receiver handed to the CCSDS parser accepts n packets
CcsdsReceiverAccepts(n) == ccsds_parsed.fail_on = 0 \/ ccsds_parsed.fail_on > n

\* C21: parse_buffer_for_ccsds_space_packets returns the number of complete
\* packets it extracted, the number of packets it passed to the TC receiver
\* during that call.
C21_ReturnsNumberOfPackets ==
    (CcsdsParsed /\ ccsds_parsed.result = "Ok")
        => ccsds_parsed.packets_found = Len(ccsds_parsed.passed)

\* C22: for an input prefix || partial, prefix a concatenation of complete
\* packets with accepted ids and partial a packet with an accepted id that is
\* shorter than its declared length, exactly the prefix packets are passed,
\* the bytes of partial are at offset 0 and next_write_idx is their number.
C22_PartialPacketKept ==
    CcsdsParsed =>
        \A cut \in 0..Len(ccsds_parsed.parsed) :
            LET prefix == SubSeq(ccsds_parsed.parsed, 1, cut)
                partial == SubSeq(ccsds_parsed.parsed, cut + 1,
                                  Len(ccsds_parsed.parsed))
            IN (/\ IsPackets(prefix)
                /\ HasValidHeader(partial)
                /\ Len(partial) < DeclaredLength(partial)
                /\ CcsdsReceiverAccepts(Len(PacketsOf(prefix))))
                   => /\ ccsds_parsed.passed = PacketsOf(prefix)
                      /\ SubSeq(ccsds_parsed.buf, 1, Len(partial)) = partial
                      /\ ccsds_parsed.next_write_idx = Len(partial)

\* C23: for a buffer that is exactly a concatenation of complete packets with
\* accepted ids every packet, the last one included, is passed once, in order,
\* as length_field + 7 bytes and next_write_idx stays 0; what is passed
\* always starts with an accepted packet id.
C23_EveryCompletePacketPassed ==
    CcsdsParsed =>
        /\ \A i \in DOMAIN ccsds_parsed.passed :
               /\ HasValidHeader(ccsds_parsed.passed[i])
               /\ Len(ccsds_parsed.passed[i]) = DeclaredLength(ccsds_parsed.passed[i])
        /\ (/\ IsPackets(ccsds_parsed.parsed)
            /\ CcsdsReceiverAccepts(Len(PacketsOf(ccsds_parsed.parsed))))
               => /\ ccsds_parsed.passed = PacketsOf(ccsds_parsed.parsed)
                  /\ ccsds_parsed.next_write_idx = 0

\* what a parser extracts from the buffer it was given when the receiver
\* accepts every packet
CobsExtracted == parse_buffer_for_cobs_encoded_packets(cobs_parsed.parsed, 0).passed
CcsdsExtracted == parse_buffer_for_ccsds_space_packets(ccsds_parsed.parsed, 0).passed

\* the outcome of a call whose receiver fails on its fail_on-th packet, for
\* the packets the buffer holds
StopsAtReceiverError(parsed, extracted) ==
    IF parsed.fail_on \in 1..Len(extracted)
    THEN /\ parsed.result = "Err"
         /\ parsed.passed = SubSeq(extracted, 1, parsed.fail_on - 1)
    ELSE /\ parsed.result = "Ok"
         /\ parsed.passed = extracted

\* C24: if the TC receiver returns an error for an extracted packet, the COBS
\* and the CCSDS parser stop and return the error; the packets before the
\* failing one were delivered once, none after it is delivered; without an
\* error of the receiver the call returns Ok.
C24_ReceiverErrorPropagated ==
    /\ Parsed => StopsAtReceiverError(cobs_parsed, CobsExtracted)
    /\ CcsdsParsed => StopsAtReceiverError(ccsds_parsed, CcsdsExtracted)

\* the COBS parser stopped at the first of two frames and the CCSDS parser at
\* the second of two packets
C24_BothParsersStopped ==
    /\ cobs_parsed.result = "Err"
    /\ cobs_parsed.fail_on = 1
    /\ Len(CobsExtracted) = 2
    /\ ccsds_parsed.result = "Err"
    /\ ccsds_parsed.fail_on = 2
    /\ Len(ccsds_parsed.passed) = 1
    /\ Len(CcsdsExtracted) = 2

(***************************************************************************)
(* PUS event TM manager properties.                                        *)
(***************************************************************************)
\* the event is in the `disabled` container of the provider
InDisabled(provider, event) ==
    IF provider = "Default"
    THEN event \in disabled[provider]
    ELSE raw_as_largest_type(event) \in disabled[provider]

EnabledNow(provider, event) == event_enabled(provider, disabled[provider], event)

\* the most recent call was this one and returned Ok
ReturnedOk(call) == pus_event_call.call = call /\ pus_event_call.kind = "Ok"

\* C25: for the default and the heapless backend provider all events are
\* enabled initially, event_enabled(e) is true exactly when e is not in the
\* disabled set, and after disable_event_reporting(e) event_enabled(e) is
\* false, after enable_event_reporting(e) it is true.
C25_EnabledIffNotDisabled ==
    /\ \A provider \in Providers, event \in PusEvents :
           EnabledNow(provider, event) <=> ~InDisabled(provider, event)
    /\ pus_event_call.call = "-" =>
           \A provider \in Providers, event \in PusEvents :
               EnabledNow(provider, event)
    /\ ReturnedOk("disable_tm_for_event") =>
           ~EnabledNow(pus_event_call.provider, pus_event_call.event)
    /\ ReturnedOk("enable_tm_for_event") =>
           EnabledNow(pus_event_call.provider, pus_event_call.event)

\* the most recent call was generate_pus_event_tm_generic, with the severity
\* of the event or with another one
Generated == pus_event_call.call = "generate_pus_event_tm_generic"
SeverityMatches == pus_event_call.severity = pus_event_call.event.severity
MsgCountNow == reporter_msg_count[pus_event_call.provider]

\* the TMs handed to the sender are PUS[5, s] with s = 1, 2, 3, 4 for Info,
\* Low, Medium, High and carry the event and the msg_count before the call
SentEventTm ==
    \A i \in DOMAIN pus_event_call.sent :
        /\ pus_event_call.sent[i].service = 5
        /\ pus_event_call.sent[i].subservice = pus_event_call.severity + 1
        /\ pus_event_call.sent[i].event_id =
               raw_as_largest_type(pus_event_call.event)
        /\ pus_event_call.sent[i].msg_count = pus_event_call.count_before

\* C26 as stated: Ok(false), nothing sent and msg_count unchanged for a
\* disabled event; for an enabled event with matching severity exactly one
\* PUS[5,s] TM is sent, Ok(true) is returned and msg_count increases by 1 only
\* if the send succeeded.
C26_EnabledEventReturnsTrue ==
    Generated =>
        /\ ~pus_event_call.enabled_before =>
               /\ pus_event_call.kind = "Ok" /\ ~pus_event_call.value
               /\ pus_event_call.sent = <<>>
               /\ MsgCountNow = pus_event_call.count_before
        /\ (pus_event_call.enabled_before /\ SeverityMatches) =>
               /\ Len(pus_event_call.sent) = 1
               /\ SentEventTm
               /\ pus_event_call.kind = "Ok" /\ pus_event_call.value
               /\ MsgCountNow # pus_event_call.count_before =>
                      /\ pus_event_call.send_ok
                      /\ MsgCountNow = pus_event_call.count_before + 1

\* C26: Ok(false), nothing sent and msg_count unchanged for an event that is
\* not enabled; for an enabled event with matching severity at most one
\* PUS[5,s] TM is handed to the sender; Ok(true) is returned and msg_count
\* increases by 1 exactly when it was handed over and the send succeeded;
\* otherwise the error of the TM generation or of the send is returned and
\* msg_count is unchanged.
C26_TrueOnlyAfterSuccessfulSend ==
    Generated =>
        /\ ~pus_event_call.enabled_before =>
               /\ pus_event_call.kind = "Ok" /\ ~pus_event_call.value
               /\ pus_event_call.sent = <<>>
               /\ MsgCountNow = pus_event_call.count_before
        /\ (pus_event_call.enabled_before /\ SeverityMatches) =>
               /\ Len(pus_event_call.sent) <= 1
               /\ SentEventTm
               /\ pus_event_call.kind = "Ok" <=>
                      (Len(pus_event_call.sent) = 1 /\ pus_event_call.send_ok)
               /\ pus_event_call.kind = "Ok" =>
                      /\ pus_event_call.value
                      /\ MsgCountNow = pus_event_call.count_before + 1
               /\ pus_event_call.kind = "Err" =>
                      /\ pus_event_call.error \in
                             {"SendError", "ByteConversionError"}
                      /\ pus_event_call.error = "SendError" <=>
                             Len(pus_event_call.sent) = 1
                      /\ MsgCountNow = pus_event_call.count_before

\* the second TM of the manager, a high severity report, was sent
C26_HighSeverityReportSent ==
    /\ Generated
    /\ pus_event_call.kind = "Ok" /\ pus_event_call.value
    /\ pus_event_call.severity = SeverityHigh
    /\ Len(pus_event_call.sent) = 1
    /\ pus_event_call.sent[1].subservice = 4
    /\ pus_event_call.count_before = 1
    /\ MsgCountNow = 2

\* C27 as stated: a call with a severity that differs from the event's
\* returns SeverityMissmatch(passed, actual) and emits no TM, for every
\* event, enabled or disabled.
C27_MismatchAlwaysAnError ==
    (Generated /\ ~SeverityMatches) =>
        /\ pus_event_call.kind = "Err"
        /\ pus_event_call.error = "SeverityMissmatch"
        /\ pus_event_call.passed = pus_event_call.severity
        /\ pus_event_call.actual = pus_event_call.event.severity
        /\ pus_event_call.sent = <<>>

\* C27: a call with a severity that differs from the event's emits no TM and
\* leaves msg_count unchanged; for an enabled event it returns
\* SeverityMissmatch(passed, actual), for an event that is not enabled
\* Ok(false).
C27_MismatchOfEnabledEventIsError ==
    (Generated /\ ~SeverityMatches) =>
        /\ pus_event_call.sent = <<>>
        /\ MsgCountNow = pus_event_call.count_before
        /\ pus_event_call.enabled_before =>
               /\ pus_event_call.kind = "Err"
               /\ pus_event_call.error = "SeverityMissmatch"
               /\ pus_event_call.passed = pus_event_call.severity
               /\ pus_event_call.actual = pus_event_call.event.severity
        /\ ~pus_event_call.enabled_before =>
               pus_event_call.kind = "Ok" /\ ~pus_event_call.value

\* an info event was reported as high severity after a TM had been sent
C27_InfoEventPassedAsHigh ==
    /\ Generated
    /\ pus_event_call.error = "SeverityMissmatch"
    /\ pus_event_call.passed = SeverityHigh
    /\ pus_event_call.actual = SeverityInfo
    /\ pus_event_call.count_before > 0

(***************************************************************************)
(* PUS distributor and test service properties.                            *)
(***************************************************************************)
\* what was put on the TM channel or forwarded for the TC with request id
\* req_id, in order; the TMs among it; the (service, subservice) of TMs
LogOf(req_id) == SelectSeq(pus_log, LAMBDA e : e.cause = req_id)
TmsOf(req_id) == SelectSeq(LogOf(req_id), LAMBDA e : e.kind = "tm")
ForwardsOf(req_id) == SelectSeq(LogOf(req_id), LAMBDA e : e.kind = "fwd")
TmKinds(tms) == [i \in DOMAIN tms |-> <<tms[i].service, tms[i].subservice>>]

\* the inbox registered for a service in PusTcMpscRouter
ServiceInbox(service) ==
    CASE service = 17 -> "test_service_receiver"
      [] service = 5 -> "event_service_receiver"
      [] service = 11 -> "sched_service_receiver"
      [] service = 3 -> "hk_service_receiver"
      [] service = 8 -> "action_service_receiver"
      [] OTHER -> "-"

\* the distributor handled the TC without a failed send
Distributed(req_id) == req_id \in DOMAIN tcs /\ tcs[req_id].outcome = "ok"

\* C28: for every TC given to the distributor, accept-ok PUS[1,1] is emitted
\* before the TC is forwarded, and (StoreAddr, token) is sent to exactly one
\* inbox, the one registered for the service: 17, 5, 11, 3 and 8 each reach
\* their own service receiver.
C28_ForwardedToOwnInbox ==
    \A req_id \in DOMAIN tcs :
        (Distributed(req_id) /\ ServiceInbox(tcs[req_id].service) # "-") =>
            /\ Len(LogOf(req_id)) >= 2
            /\ LogOf(req_id)[1] = pus_tm(1, 1, <<req_id>>, req_id)
            /\ ForwardsOf(req_id) =
                   <<pus_forward(ServiceInbox(tcs[req_id].service), req_id)>>

\* C29 as stated: for a TC whose service has no receiver an acceptance failure
\* PUS[1,2] with PUS_SERVICE_NOT_IMPLEMENTED is emitted, no accept-ok, no
\* start report, and the TC is forwarded to no inbox.
C29_AcceptanceFailureForUnrouted ==
    \A req_id \in DOMAIN tcs :
        (Distributed(req_id) /\ routed_to(tcs[req_id].service) = "-") =>
            /\ ForwardsOf(req_id) = <<>>
            /\ TmKinds(TmsOf(req_id)) = <<<<1, 2>>>>
            /\ TmsOf(req_id)[1].source_data[2] = "PUS_SERVICE_NOT_IMPLEMENTED"

\* C29: for a TC whose service the distributor does not route, accept-ok
\* PUS[1,1] is emitted, then a start failure PUS[1,4] with
\* PUS_SERVICE_NOT_IMPLEMENTED for a standard service, with
\* INVALID_PUS_SUBSERVICE for a number that is neither standard nor custom,
\* and nothing for a custom service; the TC is forwarded to no inbox.
C29_StartFailureForUnrouted ==
    \A req_id \in DOMAIN tcs :
        (Distributed(req_id) /\ routed_to(tcs[req_id].service) = "-") =>
            /\ ForwardsOf(req_id) = <<>>
            /\ TmsOf(req_id) =
                   <<pus_tm(1, 1, <<req_id>>, req_id)>> \o
                   (IF tcs[req_id].service \in StandardServices
                    THEN <<pus_tm(1, 4, <<req_id, "PUS_SERVICE_NOT_IMPLEMENTED",
                                          tcs[req_id].service>>, req_id)>>
                    ELSE IF tcs[req_id].service \in CustomServices
                    THEN <<>>
                    ELSE <<pus_tm(1, 4, <<req_id, "INVALID_PUS_SUBSERVICE",
                                          tcs[req_id].service>>, req_id)>>)

\* an action TC, the second TC of the distributor, was answered with a start
\* failure
C29_ActionTcNotImplemented ==
    /\ Distributed(2)
    /\ tcs[2].service = 8
    /\ TmKinds(TmsOf(2)) = <<<<1, 1>>, <<1, 4>>>>
    /\ TmsOf(2)[2].source_data[2] = "PUS_SERVICE_NOT_IMPLEMENTED"

\* the test handler took a ping TC
IsPing(h) == h.result \in {"RequestHandled", "RequestHandledPartialSuccess"}

\* the verification TMs among tms carry the request id, the ping reply has
\* no source data
PingSourceData(tms, req_id) ==
    \A i \in DOMAIN tms :
        tms[i].source_data = IF tms[i].service = 1 THEN <<req_id>> ELSE <<>>

IsPrefix(s, t) == Len(s) <= Len(t) /\ SubSeq(t, 1, Len(s)) = s

\* no element occurs twice in s
NoDuplicates(s) == \A i, j \in DOMAIN s : s[i] = s[j] => i = j

\* the addresses of q that producer p sent, in the order of q
FromProducer(q, p) ==
    SelectSeq(q, LAMBDA a : \E i \in DOMAIN producer_sent[p] : producer_sent[p][i] = a)

\* the addresses the funnel has received and is done with
FunnelDone ==
    IF funnel_pc = "send"
    THEN SubSeq(funnel_received, 1, Len(funnel_received) - 1)
    ELSE funnel_received

\* C31: with several producers sending addresses to the TM funnel and the
\* egress channel connected, every address the funnel received is forwarded
\* exactly once (none dropped, none duplicated), in the order the funnel
\* received them, so that the addresses of each producer keep their send
\* order.
C31_ForwardedOnceInOrder ==
    /\ IsPrefix(tm_server_q, funnel_received)
    /\ NoDuplicates(tm_server_q)
    /\ \A p \in Producers : IsPrefix(FromProducer(tm_server_q, p), producer_sent[p])
    /\ (tm_server_connected /\ ~funnel_panicked) => tm_server_q = FunnelDone

\* the funnel has forwarded the addresses of two producers whose sends
\* alternated
C31_InterleavedProducersForwarded ==
    /\ tm_server_connected
    /\ Len(tm_server_q) >= 3
    /\ producer_of(tm_server_q[1]) # producer_of(tm_server_q[2])
    /\ producer_of(tm_server_q[2]) # producer_of(tm_server_q[3])
    /\ tm_funnel_q # <<>>

(***************************************************************************)
(* The service handlers behind their TC channels and the PUS handler       *)
(* thread.                                                                 *)
(***************************************************************************)
\* a step in which the thread calls handle_next_packet of handler h
Polls(h) ==
    /\ pus_thread_pc = "poll"
    /\ Handlers[poll_handler] = h
    /\ poll_handler' # poll_handler

\* C32: handle_next_packet returns Ok(Empty) without side effect when the
\* TC channel is empty but connected, and Err(QueueDisconnected) when all
\* senders are dropped and the queue is drained; TCs queued before the
\* senders were dropped are still handled, one per call, before
\* QueueDisconnected is returned.
C32_EmptyOrDisconnectedOnlyWhenDrained ==
    [][\A h \in HandlerIds : Polls(h) =>
         /\ svc_call'.handler = h
         /\ (tc_rx[h] = <<>> /\ tc_tx_alive[h]) =>
                /\ svc_call'.result = "Empty"
                /\ UNCHANGED <<tc_rx, svc_handled>>
         /\ (tc_rx[h] = <<>> /\ ~tc_tx_alive[h]) =>
                /\ svc_call'.result = "QueueDisconnected"
                /\ UNCHANGED <<tc_rx, svc_handled>>
         /\ tc_rx[h] # <<>> =>
                /\ svc_call'.result \in HandleOutcomes
                /\ svc_call'.tc = Head(tc_rx[h])
                /\ tc_rx' = [tc_rx EXCEPT ![h] = Tail(@)]
                /\ svc_handled'[h] =
                       Append(svc_handled[h], [tc |-> Head(tc_rx[h]),
                                               alive |-> tc_tx_alive[h]])]_vars

\* a handler returned QueueDisconnected after it had handled a TC that was
\* still queued when its senders were dropped
C32_QueuedTcHandledAfterDrop ==
    \E h \in HandlerIds :
        /\ svc_call.handler = h
        /\ svc_call.result = "QueueDisconnected"
        /\ \E i \in DOMAIN svc_handled[h] : ~svc_handled[h][i].alive

\* the TC channel of some handler is disconnected
SomeChannelDisconnected == \E h \in HandlerIds : ~tc_tx_alive[h]

\* C33: when the TC channel of a service handler is disconnected, the loop
\* that owns the handler ends: the PUS handler thread does not poll, without
\* ever leaving its inner loop, a handler that returns QueueDisconnected on
\* every call.
C33_DisconnectEndsPolling ==
    SomeChannelDisconnected ~> (pus_thread_pc = "sleep")

(***************************************************************************)
(* The object manager.                                                     *)
(***************************************************************************)
\* the registered objects with the numeric object id `id`
RegisteredWithId(map, id) == {k \in DOMAIN map : k.id = id}

\* C34: after any sequence of ObjectManager::insert calls no two registered
\* objects share the same numeric object id: insert returns false and leaves
\* the registry unchanged whenever an object with that id is already
\* present, and returns true otherwise.
C34_NumericIdUnique ==
    /\ \A k1, k2 \in DOMAIN obj_map : k1.id = k2.id => k1 = k2
    /\ obj_call.op = "insert" =>
         IF RegisteredWithId(obj_call.before, obj_call.obj.id.id) # {}
         THEN ~obj_call.returned /\ obj_map = obj_call.before
         ELSE obj_call.returned

(***************************************************************************)
(* The shared pool between two threads.                                    *)
(***************************************************************************)
\* C35: a payload added to the shared pool by one thread, whose address is
\* sent over a channel, is read back byte-identical by the receiving thread
\* through a PoolGuard on that address; the slot is not released before the
\* guard's scope ends, and once it has ended has_element_at(addr) is false.
C35_GuardReadsPayloadThenReleases ==
    /\ ~pool_panicked
    /\ jh1_pc \in {"guard", "scope"} =>
         /\ jh1_addr = pool_sent.addr
         /\ has_element_at(shared_pool, jh1_addr)
         /\ pool_read(shared_pool, jh1_addr) = pool_sent.data
    /\ jh1_pc \in {"scope", "read_lock", "check", "done"} => jh1_read = pool_sent.data
    /\ jh1_pc \in {"read_lock", "check", "done"} => ~has_element_at(shared_pool, jh1_addr)
    /\ jh1_pc = "done" => ~jh1_has_element

\* the reading thread has read DUMMY_DATA through the guard and found the
\* slot released afterwards
C35_DummyDataReadAndReleased ==
    /\ jh1_pc = "done"
    /\ jh0_pc = "done"
    /\ jh1_read = DUMMY_DATA
    /\ pool_sent.data = DUMMY_DATA
    /\ jh1_addr = StoreAddress(2, 1)

(***************************************************************************)
(* The locks of the packet pools.                                          *)
(***************************************************************************)
\* thread t is about to acquire a lock
Acquires(t) == thread_op[t] # "-" /\ next_lock_step(t)[1] = "acquire"

\* some thread inside an operation can take its next lock step
SomeThreadCanStep ==
    \E t \in LockThreads :
        /\ thread_op[t] # "-"
        /\ Acquires(t) => lock_holder[next_lock_step(t)[2]] = "-"

\* the threads inside an operation are never all blocked on a pool lock
PoolLocksNeverDeadlock ==
    (\E t \in LockThreads : thread_op[t] # "-") => SomeThreadCanStep

\* C36: no thread acquires another lock (a second pool's lock or a lock
\* taken inside a verification or TM sender) while it holds a packet-pool
\* lock, so the threads can never deadlock on pool locks.
C36_NoLockAcquiredWhileHoldingPoolLock ==
    /\ \A t \in LockThreads : Acquires(t) => HeldBy(t) = {}
    /\ PoolLocksNeverDeadlock

(***************************************************************************)
(* The TCP server with COBS framing.                                       *)
(***************************************************************************)
\* C37: for a connection on which the client sends k complete COBS frames
\* and then shuts down its write side while the TM source holds m packets,
\* handle_next_connection returns with the TM source drained,
\* num_received_tcs = k and num_sent_tms = m.
C37_ReturnsWithAllCounted ==
    tcp_pc = "returned" =>
        /\ tm_queue = <<>>
        /\ conn_result.num_received_tcs = client_frames
        /\ conn_result.num_sent_tms = tm_added

\* handle_next_connection returns once the client has shut down
ConnectionEventuallyReturns == client_shutdown ~> (tcp_pc = "returned")

\* the TM source is drained and every packet counted when the handler returns
TmDrainedAndCounted ==
    tcp_pc = "returned" =>
        /\ tm_queue = <<>>
        /\ conn_result.num_sent_tms = tm_added

(***************************************************************************)
(* The PUS 17 ping handlers with failing steps.                            *)
(***************************************************************************)
\* one of the handlers has handled a ping
PingHandled == ping_call # NoPingCall

\* none of the non-fatal steps of the most recent ping failed
NoStepFailed ==
    /\ ping_call.stamp_ok
    /\ ping_call.start_ok
    /\ ping_call.store_ok
    /\ ping_call.reply_ok
    /\ ping_call.start_ok => ping_call.completion_ok

\* the result and the steps the claim requires of a handled ping
PartialFailureKeepsTcHandled ==
    /\ ping_call.result.kind = "Ok"
    /\ ping_call.steps = ping_steps(ping_call.start_ok)
    /\ ping_call.result.value =
           IF NoStepFailed THEN "RequestHandled"
           ELSE "RequestHandledPartialSuccess"

\* C38: in the PUS 17 ping handler a non-fatal failure (timestamp, start-ok,
\* ping reply, complete-ok) never makes handle_one_tc return Err: the
\* remaining steps are still attempted (complete-ok only if start-ok
\* succeeded), the result is Ok(RequestHandledPartialSuccess) whenever any
\* failure occurred and Ok(RequestHandled) only when none did.
C38_PartialFailureKeepsTcHandled ==
    PingHandled => PartialFailureKeepsTcHandled

\* the handler of satrs-core alone does what the claim says
CorePartialFailureKeepsTcHandled ==
    (PingHandled /\ ping_call.handler = "satrs-core") =>
        PartialFailureKeepsTcHandled

\* the handler of the example does so while the timestamp and the TM store
\* do not fail
ExamplePartialFailureKeepsTcHandled ==
    (PingHandled /\ ping_call.handler = "satrs-example"
        /\ ping_call.stamp_ok /\ ping_call.store_ok) =>
        PartialFailureKeepsTcHandled

(***************************************************************************)
(* The PUS 11 scheduler service handler.                                   *)
(***************************************************************************)
\* the reports sent for a request, in order
RECURSIVE ReportsOf(_, _)
ReportsOf(log, req) ==
    IF log = <<>> THEN <<>>
    ELSE IF Head(log)[1] = req
    THEN <<Head(log)[2]>> \o ReportsOf(Tail(log), req)
    ELSE ReportsOf(Tail(log), req)

\* the most recent TC had a standard subservice and the handler returned
StandardSubserviceHandled ==
    /\ sched_svc_call # NoSchedSvcCall
    /\ sched_svc_call.subservice \in HandledSubservices
    /\ sched_svc_call.result.kind = "Ok"

\* C39: for an accepted PUS 11 TC with a standard subservice (enable,
\* disable, reset, insert-activity) the handler emits exactly start-ok then
\* complete-ok and reports the request as handled; it does not return
\* CustomSubservice(token) with the used accepted token, so no second start
\* report can be emitted for the request.
C39_StandardSubserviceHandledOnce ==
    StandardSubserviceHandled =>
        /\ ReportsOf(sched_svc_log, sched_svc_call.req) =
               <<"start_success", "completion_success">>
        /\ sched_svc_call.result.value # "CustomSubservice"

\* the handler itself sends exactly start-ok then complete-ok
SchedHandlerSendsStartThenCompletion ==
    (StandardSubserviceHandled /\ sched_svc_call.result.token = "accepted") =>
        ReportsOf(sched_svc_log, sched_svc_call.req) =
            <<"start_success", "completion_success">>

(***************************************************************************)
(* COBS parser: frames whose decoding fails.                               *)
(***************************************************************************)
\* delimited frames whose code byte points beyond the end of the frame
UndecodableFrames == {<<0, 2, 0>>, <<0, 1, 2, 0>>, <<0, 2, 1, 2, 0>>}

\* the packets of the well-formed frames around an undecodable one
FramedPackets == {<<>>, <<1>>, <<0>>, <<2>>}
PacketRuns == {<<>>} \cup {<<p>> : p \in FramedPackets}

\* the frames 0 | cobs_encode(p) | 0 of a run of packets, back to back
RECURSIVE FramesOf(_)
FramesOf(packets) ==
    IF packets = <<>> THEN <<>>
    ELSE <<0>> \o cobs_encode(Head(packets)) \o <<0>> \o FramesOf(Tail(packets))

\* C40: a delimited COBS frame whose decoding fails is dropped silently: it
\* is not passed to the TC receiver, not counted in the returned packet
\* count and produces no error, and well-formed frames later in the same
\* buffer are still delivered and counted.
C40_UndecodableFrameDropped ==
    \A before \in PacketRuns, after \in PacketRuns, bad \in UndecodableFrames :
        (/\ cobs_parsed # NotParsed
         /\ cobs_parsed.parsed = FramesOf(before) \o bad \o FramesOf(after)
         /\ cobs_parsed.fail_on = 0) =>
            /\ cobs_parsed.result = "Ok"
            /\ cobs_parsed.passed = before \o after
            /\ cobs_parsed.packets_found = Len(before) + Len(after)

\* a buffer with an undecodable frame and then the frame of packet [1] was
\* parsed: one packet was counted and passed on
C40_GoodFrameAfterUndecodable ==
    /\ cobs_parsed # NotParsed
    /\ cobs_parsed.parsed = <<0, 2, 0>> \o FramesOf(<<<<1>>>>)
    /\ cobs_parsed.result = "Ok"
    /\ cobs_parsed.passed = <<<<1>>>>
    /\ cobs_parsed.packets_found = 1

Next == NextVerif \/ NextEvent \/ NextQueue \/ NextSched \/ NextCobs \/ NextCcsds \/ NextParsers
           \/ NextBackends \/ NextPusEvent \/ NextPus \/ NextFunnel
           \/ NextPusThread \/ NextObj \/ NextPool
           \/ NextLocks \/ NextTcp \/ NextPing
           \/ NextSchedSvc
Spec == Init /\ [][Next]_vars

====
